---- MODULE Spec2Model ----
(***************************************************************************)
(* Model of epilepsy_tools:                                                *)
(*   epidatavault/extract_seizures.py : create_timestamp,                  *)
(*                         extract_seizure_info, build_seizure_datavault   *)
(*   epidatavault/extract_patients.py : count_seizures,                    *)
(*                         build_patient_datavault                         *)
(*   epidatavault/extract_annotations.py : generate_patient_numbers_list   *)
(*   hexoskin/data.py : generate_timestamps, load_data                     *)
(*   cometa/data.py   : generate_timestamps, load_data, downsample,         *)
(*                         extract_emg_data, extract_acceleration_data,    *)
(*                         RecordingInfo.from_data                         *)
(*   epidatavault/patient_log.py : EXPECTED_COLUMNS, validate_columns      *)
(*                                                                         *)
(* Python strings are sequences of one-character strings, so that          *)
(* lower(), slicing, formatting and parsing are computed, not assumed.     *)
(* Spreadsheet cells are records with a "tag" field naming their Python    *)
(* representation.                                                         *)
(***************************************************************************)
EXTENDS Integers, Sequences, FiniteSets, TLC

VARIABLES
    date, time, ts_pc, ts_ret,      \* one call of create_timestamp
    cs_annotations, cs_types,       \* one call of count_seizures
    cs_pc, cs_ret,
    arg_annotations, arg_patient_numbers,   \* the arguments of the two datavault builders
    arg_seizure_types, arg_save_path,
    arg_log18, arg_log23,
    sd_pc, sd_i, seizures_list,     \* build_seizure_datavault: position in the loop,
    sd_out, sd_ret, sd_saved,       \* its list, what it printed, returned and saved
    pd_pc, pd_i, patients_list,     \* build_patient_datavault, likewise, and the
    pd_out, pd_ret, pd_saved,       \* sheets it parsed and the exception it raised
    pd_parsed, pd_exc,
    gn_annotations, gn_selection,   \* one call of generate_patient_numbers_list
    gn_p_range, gn_pc, gn_ret,
    gt_start_time, gt_sample_rate,  \* one call of hexoskin.generate_timestamps
    gt_length, gt_pc, gt_ret,
    cg_mtime, cg_time, cg_pc,       \* one call of cometa.generate_timestamps
    cg_ret,
    hx_file, hx_as_dataframe,       \* one call of hexoskin.load_data: the path, the
    hx_edf, hx_read, hx_pc, hx_ret, \* content of the file, whether it was decoded
    cm_file, cm_c3d, cm_mtime,      \* one call of cometa.load_data, likewise
    cm_opened, cm_pc, cm_ret,
    tb_heap, tb_nobj, tb_data,      \* tables in memory: the buffers, the objects made,
    tb_ratio, tb_down, tb_emg,      \* the table passed, and what downsample, the two
    tb_acc, tb_info, tb_info_down   \* extractions and RecordingInfo.from_data returned

tsVars == <<date, time, ts_pc, ts_ret>>
csVars == <<cs_annotations, cs_types, cs_pc, cs_ret>>
argVars == <<arg_annotations, arg_patient_numbers, arg_seizure_types, arg_save_path, arg_log18, arg_log23>>
sdVars == <<sd_pc, sd_i, seizures_list, sd_out, sd_ret, sd_saved>>
pdVars == <<pd_pc, pd_i, patients_list, pd_out, pd_ret, pd_saved, pd_parsed, pd_exc>>
gnVars == <<gn_annotations, gn_selection, gn_p_range, gn_pc, gn_ret>>
gtVars == <<gt_start_time, gt_sample_rate, gt_length, gt_pc, gt_ret>>
cgVars == <<cg_mtime, cg_time, cg_pc, cg_ret>>
hxVars == <<hx_file, hx_as_dataframe, hx_edf, hx_read, hx_pc, hx_ret>>
cmVars == <<cm_file, cm_c3d, cm_mtime, cm_opened, cm_pc, cm_ret>>
\* the calls on signal files, and the calls on the annotation workbook
devVars == <<gtVars, cgVars, hxVars, cmVars>>
vaultVars == <<tsVars, csVars, argVars, sdVars, pdVars>>
tbVars == <<tb_heap, tb_nobj, tb_data, tb_ratio, tb_down, tb_emg, tb_acc, tb_info, tb_info_down>>
vars == <<vaultVars, gnVars, devVars, tbVars>>

-----------------------------------------------------------------------------
(* Python values                                                           *)

NoneV == [tag |-> "None"]
NaN == [tag |-> "nan"]
NaT == [tag |-> "NaT"]

PyStr(s) == [tag |-> "str", s |-> s]
PyInt(n) == [tag |-> "int", n |-> n]
PyFloat(t) == [tag |-> "float", tenths |-> t]
PyBool(b) == [tag |-> "bool", n |-> IF b THEN 1 ELSE 0]
PyList(items) == [tag |-> "list", items |-> items]
Other == [tag |-> "other"]

Timestamp(y, mo, d, h, mi, s, us) ==
    [tag |-> "Timestamp", year |-> y, month |-> mo, day |-> d,
     hour |-> h, minute |-> mi, second |-> s, microsecond |-> us]

TimeOfDay(h, mi, s, us) ==
    [tag |-> "time", hour |-> h, minute |-> mi, second |-> s, microsecond |-> us]

\* datetime.timedelta in Python's normalised form:
\* 0 <= seconds < 86400, 0 <= microseconds < 10^6, days of either sign
Timedelta(d, s, us) ==
    [tag |-> "timedelta", days |-> d, seconds |-> s, microseconds |-> us]

CalDate(y, mo, d) == [tag |-> "date", year |-> y, month |-> mo, day |-> d]

\* datetime.datetime, which pandas.Timestamp subclasses
Datetime(y, mo, d, h, mi, s, us) ==
    [tag |-> "datetime", year |-> y, month |-> mo, day |-> d,
     hour |-> h, minute |-> mi, second |-> s, microsecond |-> us]

\* an exception leaving the call
Raise(e) == [tag |-> "raise", exc |-> e]

\* a local variable no branch has assigned
Unbound == [tag |-> "unbound"]

\* an early "return None" taken inside a branch
ReturnNone == [tag |-> "return"]

\* F(e), with e evaluated once however often F uses it
With(e, F(_)) == CHOOSE y \in {F(x) : x \in {e}} : TRUE

-----------------------------------------------------------------------------
(* Characters and strings                                                  *)

Digits == <<"0", "1", "2", "3", "4", "5", "6", "7", "8", "9">>

IsDigit(c) == \E i \in 1..10 : Digits[i] = c

DigitVal(c) == (CHOOSE i \in 1..10 : Digits[i] = c) - 1

\* str.lower() over the alphabet the model's strings use
LowerChar(c) ==
    CASE c = "A" -> "a" [] c = "B" -> "b" [] c = "C" -> "c"
      [] c = "D" -> "d" [] c = "E" -> "e" [] c = "F" -> "f" [] c = "I" -> "i"
      [] c = "L" -> "l" [] c = "N" -> "n" [] c = "O" -> "o"
      [] c = "P" -> "p" [] c = "S" -> "s" [] c = "T" -> "t"
      [] c = "X" -> "x" [] c = "Y" -> "y"
      [] OTHER -> c

Lower(s) == [i \in 1..Len(s) |-> LowerChar(s[i])]

AllDigits(s) == \A i \in 1..Len(s) : IsDigit(s[i])

RECURSIVE ToNat(_)
\* int() of a non-empty string of decimal digits
ToNat(s) ==
    IF Len(s) = 0 THEN 0
    ELSE 10 * ToNat(SubSeq(s, 1, Len(s) - 1)) + DigitVal(s[Len(s)])

RECURSIVE DecDigits(_)
\* the decimal digits of n >= 0
DecDigits(n) ==
    IF n < 10 THEN <<Digits[n + 1]>>
    ELSE Append(DecDigits(n \div 10), Digits[(n % 10) + 1])

RECURSIVE Zeros(_)
Zeros(k) == IF k <= 0 THEN <<>> ELSE <<"0">> \o Zeros(k - 1)

-----------------------------------------------------------------------------
(* pandas / datetime helpers used by create_timestamp                      *)

isna_only_None(x) == x.tag = "None"

\* pd.isna on a scalar
isna(x) == x.tag \in {"None", "nan", "NaT"}

IsLeap(y) == (y % 4 = 0 /\ y % 100 # 0) \/ y % 400 = 0

DaysInMonth(y, m) ==
    IF m = 2 THEN (IF IsLeap(y) THEN 29 ELSE 28)
    ELSE IF m \in {4, 6, 9, 11} THEN 30 ELSE 31

\* the value of a field of one or two digits, -1 when it is not one
Field(s) == IF Len(s) \in {1, 2} /\ AllDigits(s) THEN ToNat(s) ELSE -1

PadWidth == 6

Format06d_unpadded(n) ==
    IF n >= 0 THEN DecDigits(n) ELSE <<"-">> \o DecDigits(-n)

\* f"{time:06d}": sign-aware zero padding to six characters
Format06d(n) ==
    IF n >= 0
    THEN Zeros(PadWidth - Len(DecDigits(n))) \o DecDigits(n)
    ELSE <<"-">> \o Zeros(PadWidth - 1 - Len(DecDigits(-n))) \o DecDigits(-n)

\* the time part of a clock reading; pandas gives a parsed time the date 1900-01-01
Clock(h, mi, s) ==
    IF h \in 0..23 /\ mi \in 0..59 /\ s \in 0..59
    THEN Timestamp(1900, 1, 1, h, mi, s, 0)
    ELSE NaT

\* pd.to_datetime(s, format="%H:%M:%S", errors="coerce"): three fields of one or
\* two digits separated by colons, the whole string matched
to_datetime_HMS(s) ==
    LET splits == {sp \in (1..2) \X (1..2) \X (1..2) :
                      /\ Len(s) = sp[1] + sp[2] + sp[3] + 2
                      /\ s[sp[1] + 1] = ":"
                      /\ s[sp[1] + sp[2] + 2] = ":"
                      /\ Field(SubSeq(s, 1, sp[1])) >= 0
                      /\ Field(SubSeq(s, sp[1] + 2, sp[1] + sp[2] + 1)) >= 0
                      /\ Field(SubSeq(s, sp[1] + sp[2] + 3, Len(s))) >= 0}
    IN  IF splits = {} THEN NaT
        ELSE LET sp == CHOOSE x \in splits : TRUE
             IN  Clock(Field(SubSeq(s, 1, sp[1])),
                       Field(SubSeq(s, sp[1] + 2, sp[1] + sp[2] + 1)),
                       Field(SubSeq(s, sp[1] + sp[2] + 3, Len(s))))

\* the field widths the directive regexes try, widest first
CompactSplits ==
    <<<<2, 2, 2>>, <<2, 2, 1>>, <<2, 1, 2>>, <<2, 1, 1>>,
      <<1, 2, 2>>, <<1, 2, 1>>, <<1, 1, 2>>, <<1, 1, 1>>>>

\* pd.to_datetime(s, format="%H%M%S", errors="coerce"): the directives match one
\* or two digits each (%H 0..23, %M 0..59, %S 0..59) and the whole string must match
to_datetime_compact(s) ==
    LET ok(sp) ==
            /\ Len(s) = sp[1] + sp[2] + sp[3]
            /\ AllDigits(s)
            /\ ToNat(SubSeq(s, 1, sp[1])) <= 23
            /\ ToNat(SubSeq(s, sp[1] + 1, sp[1] + sp[2])) <= 59
            /\ ToNat(SubSeq(s, sp[1] + sp[2] + 1, Len(s))) <= 59
        found == {i \in 1..Len(CompactSplits) : ok(CompactSplits[i])}
    IN  IF found = {} THEN NaT
        ELSE LET sp == CompactSplits[CHOOSE i \in found : \A j \in found : i <= j]
             IN  Clock(ToNat(SubSeq(s, 1, sp[1])),
                       ToNat(SubSeq(s, sp[1] + 1, sp[1] + sp[2])),
                       ToNat(SubSeq(s, sp[1] + sp[2] + 1, Len(s))))

\* pd.to_datetime(s, errors="coerce") on the ISO forms "YYYY-MM-DD" and
\* "YYYY-MM-DD HH:MM:SS"; every other string of the model's inputs is one pandas
\* cannot read as a date and coerces to NaT
to_datetime(s) ==
    LET dateOk ==
            /\ Len(s) \in {10, 19}
            /\ s[5] = "-" /\ s[8] = "-"
            /\ AllDigits(SubSeq(s, 1, 4))
            /\ AllDigits(SubSeq(s, 6, 7))
            /\ AllDigits(SubSeq(s, 9, 10))
            /\ ToNat(SubSeq(s, 6, 7)) \in 1..12
            /\ ToNat(SubSeq(s, 9, 10)) \in
                   1..DaysInMonth(ToNat(SubSeq(s, 1, 4)), ToNat(SubSeq(s, 6, 7)))
        clock == IF Len(s) = 19 /\ s[11] \in {" ", "T"} /\ s[14] = ":" /\ s[17] = ":"
                 THEN to_datetime_HMS(SubSeq(s, 12, 19))
                 ELSE NaT
    IN  IF ~dateOk THEN NaT
        ELSE IF Len(s) = 10
        THEN Timestamp(ToNat(SubSeq(s, 1, 4)), ToNat(SubSeq(s, 6, 7)),
                       ToNat(SubSeq(s, 9, 10)), 0, 0, 0, 0)
        ELSE IF isna(clock) THEN NaT
        ELSE Timestamp(ToNat(SubSeq(s, 1, 4)), ToNat(SubSeq(s, 6, 7)),
                       ToNat(SubSeq(s, 9, 10)), clock.hour, clock.minute, clock.second, 0)

\* Timestamp.time() / datetime.time()
time_of(t) == TimeOfDay(t.hour, t.minute, t.second, t.microsecond)

\* (datetime.datetime.min + td).time(): datetime.min is day 1 of year 1, so a
\* negative td leaves the range of datetime and raises; whole days are dropped
min_plus_time(td) ==
    IF td.days < 0 THEN Raise("OverflowError")
    ELSE TimeOfDay(td.seconds \div 3600, (td.seconds \div 60) % 60,
                   td.seconds % 60, td.microseconds)

YesNo == {<<"y", "e", "s">>, <<"n", "o">>}

-----------------------------------------------------------------------------
(* extract_seizures.create_timestamp                                       *)

\* lines 43-65: time_ts, or the early return or exception of its branch
TimeBranch(t) ==
    IF t.tag \in {"int", "bool"}
    THEN With(to_datetime_compact(Format06d(t.n)),
              LAMBDA p : IF isna(p) THEN ReturnNone ELSE time_of(p))
    ELSE IF t.tag = "str"
    THEN With(to_datetime_HMS(t.s),
              LAMBDA p : IF isna(p) THEN ReturnNone ELSE time_of(p))
    ELSE IF t.tag \in {"Timestamp", "time", "datetime"} THEN t
    ELSE IF t.tag = "timedelta" THEN min_plus_time(t)
    ELSE Unbound

\* lines 35-41: date_ts
DateBranch(d) ==
    IF d.tag = "str" THEN to_datetime(d.s)
    ELSE IF d.tag \in {"Timestamp", "datetime"} THEN d
    ELSE Unbound

\* lines 67-76, reached with date_ts and time_ts as the branches left them
Combine(date_ts, time_ts) ==
    IF time_ts = ReturnNone THEN NoneV
    ELSE IF time_ts.tag = "raise" THEN time_ts
    ELSE IF date_ts = Unbound \/ time_ts = Unbound THEN Raise("UnboundLocalError")
    ELSE Timestamp(date_ts.year, date_ts.month, date_ts.day,
                   time_ts.hour, time_ts.minute, time_ts.second, time_ts.microsecond)

create_timestamp(d, t) ==
    IF isna(d) \/ isna(t) \/ t = NoneV THEN NoneV
    ELSE IF t.tag = "str" /\ Lower(t.s) \in YesNo THEN NoneV
    ELSE With(DateBranch(d),
              LAMBDA date_ts :
                  IF d.tag = "str" /\ isna(date_ts) THEN NoneV
                  ELSE With(TimeBranch(t), LAMBDA time_ts : Combine(date_ts, time_ts)))

-----------------------------------------------------------------------------
(* Cells a sheet can hold in the Seizure_Date column and in a time column  *)

S_2021_01_01 == <<"2", "0", "2", "1", "-", "0", "1", "-", "0", "1">>
S_2020_02_29 == <<"2", "0", "2", "0", "-", "0", "2", "-", "2", "9">>
S_2021_12_31_235959 ==
    <<"2", "0", "2", "1", "-", "1", "2", "-", "3", "1", " ",
      "2", "3", ":", "5", "9", ":", "5", "9">>
S_2021_02_30 == <<"2", "0", "2", "1", "-", "0", "2", "-", "3", "0">>
S_abc == <<"a", "b", "c">>
S_12_00_00 == <<"1", "2", ":", "0", "0", ":", "0", "0">>
S_01_02_03 == <<"0", "1", ":", "0", "2", ":", "0", "3">>
S_23_59_59 == <<"2", "3", ":", "5", "9", ":", "5", "9">>
S_24_00_00 == <<"2", "4", ":", "0", "0", ":", "0", "0">>
S_12_61_00 == <<"1", "2", ":", "6", "1", ":", "0", "0">>
S_12_00 == <<"1", "2", ":", "0", "0">>
S_120000 == <<"1", "2", "0", "0", "0", "0">>

DateCells ==
    { NoneV, NaN, NaT,
      PyStr(S_2021_01_01), PyStr(S_2020_02_29), PyStr(S_2021_12_31_235959),
      PyStr(S_2021_02_30), PyStr(S_abc), PyStr(<<>>),
      Timestamp(2021, 1, 1, 0, 0, 0, 0), Timestamp(2021, 3, 15, 8, 30, 0, 0),
      Datetime(2019, 4, 18, 0, 0, 0, 0),
      CalDate(2021, 1, 1), PyInt(20210101), PyFloat(441970), Other }

TimeCells ==
    { NoneV, NaN, NaT,
      PyStr(<<"y", "e", "s">>), PyStr(<<"n", "o">>), PyStr(<<"Y", "E", "S">>),
      PyStr(<<"N", "o">>), PyStr(<<"n", "O">>), PyStr(<<"Y", "e", "s">>),
      PyStr(S_12_00_00), PyStr(S_01_02_03), PyStr(S_23_59_59),
      PyStr(S_24_00_00), PyStr(S_12_61_00), PyStr(S_12_00), PyStr(S_120000),
      PyStr(S_abc), PyStr(<<>>),
      PyInt(120000), PyInt(93000), PyInt(235959), PyInt(1), PyInt(0),
      PyInt(-5), PyInt(240000), PyInt(126000), PyInt(1234567),
      PyBool(TRUE), PyFloat(125), PyFloat(5),
      Timestamp(2026, 11, 2, 12, 0, 0, 0), Timestamp(1900, 1, 1, 9, 30, 15, 250000),
      Datetime(1900, 1, 1, 23, 59, 59, 0),
      TimeOfDay(12, 0, 0, 0), TimeOfDay(23, 59, 59, 999999),
      Timedelta(0, 3600, 0), Timedelta(0, 0, 0), Timedelta(0, 86399, 500000),
      Timedelta(1, 3600, 0), Timedelta(2, 0, 0), Timedelta(-1, 82800, 0),
      CalDate(2021, 1, 1), Other }

-----------------------------------------------------------------------------
(* Annotation tables: a DataFrame is its set of column names and its rows, *)
(* each row a function from column name to cell                            *)

FIAS == <<"F", "I", "A", "S">>
FBTCS == <<"F", "B", "T", "C", "S">>
GTCS == <<"G", "T", "C", "S">>
ALL == <<"a", "l", "l">>

DataFrame(cols, rows) == [tag |-> "DataFrame", columns |-> cols, rows |-> rows]

\* Series == scalar, element by element: a missing cell equals nothing
CellEq(c, k) == c.tag = "str" /\ k.tag = "str" /\ c.s = k.s

\* annotations["Seizure_Classification"].unique(), as a set
unique(df, col) == {df.rows[i][col] : i \in 1..Len(df.rows)}

\* (annotations["Seizure_Classification"] == sz_type).sum()
CountEq(df, col, k) == Cardinality({i \in 1..Len(df.rows) : CellEq(df.rows[i][col], k)})

\* a Python dict as a function from its keys; d[k] = v
DictSet(d, k, v) == [x \in DOMAIN d \cup {k} |-> IF x = k THEN v ELSE d[x]]

EmptyDict == [x \in {} |-> 0]

RECURSIVE SumOver(_, _)
\* sum(d.values())
SumOver(d, keys) ==
    IF keys = {} THEN 0
    ELSE LET k == CHOOSE x \in keys : TRUE
         IN  d[k] + SumOver(d, keys \ {k})

SumValues(d) == SumOver(d, DOMAIN d)

\* the iteration order of a set is not specified; the loop's result does not
\* depend on it, each key being written once
RECURSIVE SetToSeq(_)
SetToSeq(S) ==
    IF S = {} THEN <<>>
    ELSE LET k == CHOOSE x \in S : TRUE
         IN  <<k>> \o SetToSeq(S \ {k})

RECURSIVE SumList(_)
SumList(s) == IF s = <<>> THEN 0 ELSE Head(s) + SumList(Tail(s))

\* a slip that adds one count per list entry instead of one per dict key
CountLoop_per_entry(df, available, it, sz_num) ==
    SumList([i \in 1..Len(it) |->
                IF it[i] \in available
                THEN CountEq(df, "Seizure_Classification", it[i]) ELSE 0])

RECURSIVE CountLoopDict(_, _, _, _)
\* lines 66-70: for sz_type in sz_types_it: sz_num[sz_type] = ...
CountLoopDict(df, available, it, sz_num) ==
    IF it = <<>> THEN sz_num
    ELSE LET sz_type == Head(it)
             n == IF sz_type \in available
                  THEN CountEq(df, "Seizure_Classification", sz_type)
                  ELSE 0
         IN  CountLoopDict(df, available, Tail(it), DictSet(sz_num, sz_type, n))

\* lines 60-71: the loop and int(sum(sz_num.values()))
CountLoop(df, available, it, sz_num) ==
    SumValues(CountLoopDict(df, available, it, sz_num))

-----------------------------------------------------------------------------
(* extract_patients.count_seizures                                         *)

count_seizures(annotations, seizure_types_arg) ==
    LET seizure_types == IF seizure_types_arg = NoneV THEN PyList(<<PyStr(ALL)>>)
                         ELSE seizure_types_arg
    IN
    IF "Seizure_Classification" \notin annotations.columns THEN Raise("KeyError")
    ELSE
    LET available_sz_types == unique(annotations, "Seizure_Classification")
        sz_types_it == IF seizure_types = PyList(<<PyStr(ALL)>>)
                       THEN SetToSeq(available_sz_types)
                       ELSE seizure_types.items
        sz_num_total == CountLoop(annotations, available_sz_types, sz_types_it, EmptyDict)
    IN  IF seizure_types # PyList(<<PyStr(ALL)>>) /\ sz_num_total = 0 THEN NoneV
        ELSE PyInt(sz_num_total)

-----------------------------------------------------------------------------
(* The annotation workbook: sheet name -> sheet. A sheet is the table      *)
(* parse(name, header=4) gives and the two metadata cells parse(name,      *)
(* header=None) has at [0, 1] and [1, 1]                                    *)

Sheet(table, start, end) == [table |-> table, start |-> start, end |-> end]

\* annotations.parse(p_num, header=4): a sheet the workbook lacks raises
parse(annotations, p_num) ==
    IF p_num \in DOMAIN annotations THEN annotations[p_num].table
    ELSE Raise("ValueError")

\* row[col]: a column the table lacks raises KeyError
RowGet(df, row, col) == IF col \in df.columns THEN row[col] ELSE Raise("KeyError")

\* pd.to_datetime(cell, errors="coerce") on the cells the sheets of the model hold
to_datetime_cell(c) ==
    IF c.tag = "str" THEN to_datetime(c.s)
    ELSE IF c.tag \in {"Timestamp", "datetime"}
    THEN Timestamp(c.year, c.month, c.day, c.hour, c.minute, c.second, c.microsecond)
    ELSE IF c.tag = "None" THEN NoneV
    ELSE NaT

RECURSIVE UniqueSeq(_, _, _)
\* list(annotations[col].unique()): the distinct cells in order of appearance
UniqueSeq(df, col, i) ==
    IF i > Len(df.rows) THEN <<>>
    ELSE IF \E j \in 1..(i - 1) : df.rows[j][col] = df.rows[i][col]
    THEN UniqueSeq(df, col, i + 1)
    ELSE <<df.rows[i][col]>> \o UniqueSeq(df, col, i + 1)

\* annotations[annotations["Seizure_Classification"] == sz_type], as row numbers
RECURSIVE Filtered(_, _, _)
Filtered(df, sz_type, i) ==
    IF i > Len(df.rows) THEN <<>>
    ELSE IF CellEq(df.rows[i]["Seizure_Classification"], sz_type)
    THEN <<i>> \o Filtered(df, sz_type, i + 1)
    ELSE Filtered(df, sz_type, i + 1)

Ok(v) == [tag |-> "ok", v |-> v]

\* create_timestamp(row["Seizure_Date"], row[col]); either subscript may raise
TimeField(df, row, col) ==
    IF RowGet(df, row, "Seizure_Date").tag = "raise" THEN Raise("KeyError")
    ELSE IF RowGet(df, row, col).tag = "raise" THEN Raise("KeyError")
    ELSE create_timestamp(row["Seizure_Date"], row[col])

\* the first exception among the values, else the event they make
EventOrRaise(vals) ==
    With({i \in 1..Len(vals) : vals[i].tag = "raise"},
         LAMBDA raised :
             IF raised # {}
             THEN vals[CHOOSE i \in raised : \A j \in raised : i <= j]
             ELSE Ok([p_num |-> vals[1], sz_id |-> vals[2], sz_type |-> vals[3],
                      sz_date |-> vals[4], electric_onset |-> vals[5],
                      clinical_onset |-> vals[6], generalization |-> vals[7],
                      motor_onset |-> vals[8], sz_offset |-> vals[9]]))

\* lines 138-175: the nine values one row appends, in the order the code computes
\* them; the first that raises ends the call
EventOfRow(df, row, patient_number) ==
    LET sz_id == RowGet(df, row, "Seizure_count")
        electric_col == IF "Electric_Onset" \in df.columns THEN "Electric_Onset"
                        ELSE "Electrical_Onset"
        d == RowGet(df, row, "Seizure_Date")
    IN  With(<<PyStr(patient_number),
               IF sz_id.tag \in {"int", "bool", "raise"} THEN sz_id ELSE NoneV,
               RowGet(df, row, "Seizure_Classification"),
               IF d.tag = "raise" THEN d ELSE to_datetime_cell(d),
               \* row.get(electric_col) is None when the column is absent
               IF d.tag = "raise" THEN d
               ELSE create_timestamp(d, IF electric_col \in df.columns
                                        THEN row[electric_col] ELSE NoneV),
               TimeField(df, row, "Clinical_Onset"),
               TimeField(df, row, "Generalization"),
               TimeField(df, row, "Motor_Onset"),
               TimeField(df, row, "End")>>,
             LAMBDA vals : EventOrRaise(vals))

\* events so far, then the rest: an exception anywhere ends the loop
Then(first, rest) ==
    IF first.tag = "raise" THEN first
    ELSE IF rest.tag = "raise" THEN rest
    ELSE Ok(first.v \o rest.v)

RECURSIVE EventsOfRows(_, _, _)
\* the loop over the rows of one type: Ok(events) or the exception that ends it
EventsOfRows(df, idx, patient_number) ==
    IF idx = <<>> THEN Ok(<<>>)
    ELSE With(EventOfRow(df, df.rows[Head(idx)], patient_number),
              LAMBDA ev :
                  IF ev.tag = "raise" THEN ev
                  ELSE With(EventsOfRows(df, Tail(idx), patient_number),
                            LAMBDA rest : Then(Ok(<<ev.v>>), rest)))

RECURSIVE EventsOfTypes(_, _, _)
\* lines 132-175: for sz_type in seizure_types, the rows of that type
EventsOfTypes(df, types, patient_number) ==
    IF types = <<>> THEN Ok(<<>>)
    ELSE With(EventsOfRows(df, Filtered(df, Head(types), 1), patient_number),
              LAMBDA evs :
                  IF evs.tag = "raise" THEN evs
                  ELSE With(EventsOfTypes(df, Tail(types), patient_number),
                            LAMBDA rest : Then(evs, rest)))

-----------------------------------------------------------------------------
(* extract_seizures.extract_seizure_info: the dict of nine lists is kept   *)
(* as the list of events, event k being the k-th entry of each list; every *)
(* row appends to all nine                                                 *)

extract_seizure_info(annotations, patient_number, seizure_types_arg) ==
    IF "Seizure_Classification" \notin annotations.columns THEN Raise("KeyError")
    ELSE
    LET seizure_types ==
            IF seizure_types_arg = NoneV \/ seizure_types_arg = PyList(<<PyStr(ALL)>>)
            THEN UniqueSeq(annotations, "Seizure_Classification", 1)
            ELSE seizure_types_arg.items
    IN  EventsOfTypes(annotations, seizure_types, patient_number)

\* except Exception: every exception the call can raise is caught
Catches_only_KeyError(e) == e.exc = "KeyError"

Catches(e) == e.tag = "raise"

\* lines 225-232: one pass of the loop of build_seizure_datavault: the events to
\* append for p_num (none when the patient has no event), or the exception caught
ProcessPatient(annotations, p_num, seizure_types) ==
    LET annotation_sheet == parse(annotations, p_num)
    IN  IF annotation_sheet.tag = "raise" THEN annotation_sheet
        ELSE extract_seizure_info(annotation_sheet, p_num, seizure_types)

RECURSIVE explode(_)
\* pd.DataFrame(seizures_list).apply(lambda col: col.explode()).reset_index(drop=True):
\* one row per entry of each patient's lists, patients in list order
explode(lists) ==
    IF lists = <<>> THEN <<>>
    ELSE Head(lists) \o explode(Tail(lists))

-----------------------------------------------------------------------------
(* Rosters and identity lookup of build_patient_datavault                  *)

\* the roster columns lines 140-141 and 148-149 read, byte for byte: a character
\* outside ASCII is written as the hexadecimal UTF-8 bytes the file holds for it,
\* between angle brackets (<C3A9> is e with an acute accent)
ID23 == "ID du patient"
NUM23 == "Num<C383C490>ro de dossier CHUM"
NAME23 == "Nom, Pr<C383C490>nom"
SEX23 == "Sex"
CODE18 == "# Code"
NUM18 == "# Dossier m<C383C490>dical"
NAME18 == "Nom participant"
SEX18 == "Sexe du participant"

\* patient_log.py lines 10-55, in the same notation
EXPECTED_COLUMNS(log_type) ==
    IF log_type = "log18"
    THEN { "# Code", "Nom participant", "Sexe du participant", "# Dossier m<C3A9>dical",
           "Date d<C3A9>but de la participation", "exclu", "Date de fin", "Commentaires",
           "MD", "Chambre", "Foyer de la crise", "Lat<C3A9>ralisation",
           "S<C3A9>miologie (a r<C3A9>viser)", "Nombre de crise", "Date de crise",
           "Annoter" }
    ELSE IF log_type = "log23"
    THEN { "ID du patient", "Sex", "Nom, Pr<C3A9>nom", "<C382>ge",
           "Num<C3A9>ro de dossier CHUM", "Salle <C3A0> l'UME", "Embrace2 / Emfit",
           "Oui ou non", "Hexoskin / BioPoint / Nose / Cometa", "Oui / Non",
           "<C389>ligible?", "Accepte de participer?",
           "Date de signature du FIC jj/mmm/aaaa",
           "Date and time of seizures jj/mm/aaaa",
           "Date and time of seizures jj/mm/aaaa.1", "No.", "Number of false alarms",
           "D<C3A9>but de la participation          Visite initiale jj/mmm/aaaa",
           "Fin de la participation jj/mmm/aaaa", "Comments on false alarms", "Nom",
           "Date jj/mmm/aaaa", "nom d'infirmi<C3A9>re", "Commentaires" }
    ELSE {}

\* validate_columns, lines 119-128: the column sets must be equal
validate_columns(df, log_type) ==
    IF df.columns # EXPECTED_COLUMNS(log_type) THEN Raise("ValueError") ELSE Ok(NoneV)

\* lines 140-141 and 148-149: the columns each lookup selects
ReadColumns23 == {ID23, NUM23, NAME23, SEX23}

ReadColumns18 == {CODE18, NUM18, NAME18, SEX18}

\* needle in hay
Contains(hay, needle) ==
    \E i \in 0..(Len(hay) - Len(needle)) : SubSeq(hay, i + 1, i + Len(needle)) = needle

\* log23["ID du patient"].str.lower() == p_num.lower(), as row numbers
Match23(log23, p_num) ==
    {i \in 1..Len(log23.rows) :
        /\ log23.rows[i][ID23].tag = "str"
        /\ Lower(log23.rows[i][ID23].s) = Lower(p_num)}

\* log18["# Code"].str.contains(p_num[1:], case=False, na=False), as row numbers
Match18(log18, p_num) ==
    {i \in 1..Len(log18.rows) :
        /\ log18.rows[i][CODE18].tag = "str"
        /\ Contains(Lower(log18.rows[i][CODE18].s), Lower(SubSeq(p_num, 2, Len(p_num))))}

Min(S) == CHOOSE i \in S : \A j \in S : i <= j

\* lines 138-144: <<p_id, p_name, p_sex>> after the newer roster
After23(p_num, log23) ==
    IF log23 # NoneV /\ Match23(log23, p_num) # {}
    THEN LET r == log23.rows[Min(Match23(log23, p_num))]
         IN  <<r[NUM23], r[NAME23], r[SEX23]>>
    ELSE <<NoneV, NoneV, NoneV>>

\* line 146
Consults18(p_num, log18, log23) ==
    /\ log18 # NoneV
    /\ After23(p_num, log23)[1] = NoneV \/ After23(p_num, log23)[2] = NoneV

\* lines 139-142 and 147-150: selecting a column the roster does not have
\* raises KeyError, whatever the rows
LookupKeyError(p_num, log18, log23) ==
    IF log23 # NoneV /\ ~(ReadColumns23 \subseteq log23.columns) THEN TRUE
    ELSE Consults18(p_num, log18, log23) /\ ~(ReadColumns18 \subseteq log18.columns)

\* lines 134-152: <<p_id, p_name, p_sex>>
ResolveIdentity(p_num, log18, log23) ==
    LET after23 == After23(p_num, log23)
        m18 == IF Consults18(p_num, log18, log23) THEN Match18(log18, p_num) ELSE {}
    IN  IF m18 # {}
        THEN LET r == log18.rows[Min(m18)]
             IN  <<r[NUM18], r[NAME18], r[SEX18]>>
        ELSE after23

\* lines 154-158: the lines printed for a patient
Diagnostics(p_num, ident) ==
    (IF ident[1] = NoneV THEN <<[p_num |-> p_num, msg |-> "No match found for patient ID"]>>
     ELSE <<>>)
    \o (IF ident[2] = NoneV
        THEN <<[p_num |-> p_num, msg |-> "No match found for patient name"]>>
        ELSE <<>>)

\* str(p_id)
str(c) ==
    IF c.tag = "str" THEN c
    ELSE IF c.tag = "None" THEN PyStr(<<"N", "o", "n", "e">>)
    ELSE IF c.tag = "nan" THEN PyStr(<<"n", "a", "n">>)
    ELSE PyStr(Format06d_unpadded(c.n))

\* extract_annotation_dates: the cells [0, 1] and [1, 1] of the raw sheet read with
\* format "%Y-%m-%d", errors="coerce"; a sheet too small for them raises
to_datetime_Ymd(c) ==
    IF c.tag = "str" THEN (IF Len(c.s) = 10 THEN to_datetime(c.s) ELSE NaT)
    ELSE IF c.tag \in {"Timestamp", "datetime"}
    THEN Timestamp(c.year, c.month, c.day, c.hour, c.minute, c.second, c.microsecond)
    ELSE NaT

extract_annotation_dates(annotations, patient_number) ==
    IF patient_number \notin DOMAIN annotations THEN Raise("ValueError")
    ELSE LET sh == annotations[patient_number]
         IN  IF sh.start.tag = "absent" \/ sh.end.tag = "absent" THEN Raise("IndexError")
             ELSE Ok(<<to_datetime_Ymd(sh.start), to_datetime_Ymd(sh.end)>>)

BothRostersNull_or(log18, log23) == log18 = NoneV \/ log23 = NoneV

\* line 124
BothRostersNull(log18, log23) == log18 = NoneV /\ log23 = NoneV

KeepPatient_truthy(sz_counts) == sz_counts # NoneV /\ sz_counts # PyInt(0)

\* line 170: if sz_counts is not None
KeepPatient(sz_counts) == sz_counts # NoneV

\* lines 130-168: the record of one patient, or the exception that leaves the loop
PatientData(annotations, p_num, seizure_types, log18, log23) ==
    LET annotation_sheet == parse(annotations, p_num)
        sz_counts == count_seizures(annotation_sheet, seizure_types)
        dates == extract_annotation_dates(annotations, p_num)
        ident == ResolveIdentity(p_num, log18, log23)
    IN  IF annotation_sheet.tag = "raise" THEN annotation_sheet
        ELSE IF sz_counts.tag = "raise" THEN sz_counts
        ELSE IF dates.tag = "raise" THEN dates
        ELSE IF LookupKeyError(p_num, log18, log23) THEN Raise("KeyError")
        ELSE Ok([patient_num |-> PyStr(p_num),
                 patient_id |-> IF ident[1] = PyStr(<<"n", "a", "n">>) THEN NoneV
                                ELSE str(ident[1]),
                 patient_name |-> ident[2],
                 patient_sex |-> ident[3],
                 start_date |-> dates.v[1],
                 end_date |-> dates.v[2],
                 num_seizures |-> sz_counts])

-----------------------------------------------------------------------------
(* One call of create_timestamp on every pair of cells                     *)

\* the variables of the calls a specification does not make
IdleTS == date = NoneV /\ time = NoneV /\ ts_pc = "idle" /\ ts_ret = NoneV

IdleCS ==
    /\ cs_annotations = DataFrame({}, <<>>)
    /\ cs_types = NoneV
    /\ cs_pc = "idle"
    /\ cs_ret = NoneV

IdleArgs ==
    /\ arg_annotations = <<>>
    /\ arg_patient_numbers = <<>>
    /\ arg_seizure_types = NoneV
    /\ arg_save_path = NoneV
    /\ arg_log18 = NoneV
    /\ arg_log23 = NoneV

IdleSD ==
    /\ sd_pc = "idle" /\ sd_i = 0 /\ seizures_list = <<>>
    /\ sd_out = <<>> /\ sd_ret = NoneV /\ sd_saved = FALSE

IdlePD ==
    /\ pd_pc = "idle" /\ pd_i = 0 /\ patients_list = <<>>
    /\ pd_out = <<>> /\ pd_ret = NoneV /\ pd_saved = FALSE
    /\ pd_parsed = <<>> /\ pd_exc = NoneV

IdleGN ==
    /\ gn_annotations = NoneV /\ gn_selection = "all" /\ gn_p_range = NoneV
    /\ gn_pc = "idle" /\ gn_ret = NoneV

IdleGT ==
    /\ gt_start_time = 0 /\ gt_sample_rate = <<1, 1>> /\ gt_length = 0
    /\ gt_pc = "idle" /\ gt_ret = NoneV

IdleCG == cg_mtime = 0 /\ cg_time = <<>> /\ cg_pc = "idle" /\ cg_ret = NoneV

IdleHX ==
    /\ hx_file = <<>> /\ hx_as_dataframe = TRUE /\ hx_edf = NoneV
    /\ hx_read = FALSE /\ hx_pc = "idle" /\ hx_ret = NoneV

IdleCM ==
    /\ cm_file = <<>> /\ cm_c3d = NoneV /\ cm_mtime = 0
    /\ cm_opened = FALSE /\ cm_pc = "idle" /\ cm_ret = NoneV

IdleDev == IdleGT /\ IdleCG /\ IdleHX /\ IdleCM

IdleTB ==
    /\ tb_heap = <<>> /\ tb_nobj = 0 /\ tb_data = NoneV /\ tb_ratio = 0
    /\ tb_down = NoneV /\ tb_emg = NoneV /\ tb_acc = NoneV
    /\ tb_info = NoneV /\ tb_info_down = NoneV

IdleVault == IdleTS /\ IdleCS /\ IdleArgs /\ IdleSD /\ IdlePD

InitTS ==
    /\ date \in DateCells
    /\ time \in TimeCells
    /\ ts_pc = "call"
    /\ ts_ret = NoneV
    /\ IdleCS /\ IdleArgs /\ IdleSD /\ IdlePD /\ IdleGN /\ IdleTB /\ IdleDev

CreateTimestamp ==
    /\ ts_pc = "call"
    /\ ts_ret' = create_timestamp(date, time)
    /\ ts_pc' = "done"
    /\ UNCHANGED <<date, time, csVars, argVars, sdVars, pdVars, gnVars, tbVars, devVars>>

NextTS == CreateTimestamp

SpecTS == InitTS /\ [][NextTS]_vars

-----------------------------------------------------------------------------
(* One call of count_seizures on every table and every type filter         *)

MaxRows == 3
MaxTypes == 2

\* sequences over S of length at most n
SeqUpTo(S, n) == UNION {[1..k -> S] : k \in 0..n}

AnnotationColumns ==
    {"Seizure_Classification", "Seizure_count", "Seizure_Date", "Electric_Onset",
     "Clinical_Onset", "Generalization", "Motor_Onset", "End"}

\* a row with the given classification; the other cells do not enter the count
Row(class) ==
    [c \in AnnotationColumns |->
        IF c = "Seizure_Classification" THEN class
        ELSE IF c = "Seizure_Date" THEN PyStr(S_2021_01_01)
        ELSE IF c = "Seizure_count" THEN PyInt(1)
        ELSE NaN]

ClassCells == {PyStr(FIAS), PyStr(FBTCS), NaN}

RequestedTypes == {PyStr(FIAS), PyStr(FBTCS), PyStr(GTCS), PyStr(ALL)}

TypeFilters == {NoneV} \cup {PyList(s) : s \in SeqUpTo(RequestedTypes, MaxTypes)}

InitCS ==
    /\ cs_annotations \in
          {DataFrame(AnnotationColumns, [i \in DOMAIN s |-> Row(s[i])]) :
              s \in SeqUpTo(ClassCells, MaxRows)}
    /\ cs_types \in TypeFilters
    /\ cs_pc = "call"
    /\ cs_ret = NoneV
    /\ IdleTS /\ IdleArgs /\ IdleSD /\ IdlePD /\ IdleGN /\ IdleTB /\ IdleDev

CountSeizures ==
    /\ cs_pc = "call"
    /\ cs_ret' = count_seizures(cs_annotations, cs_types)
    /\ cs_pc' = "done"
    /\ UNCHANGED <<cs_annotations, cs_types, tsVars, argVars, sdVars, pdVars, gnVars, tbVars, devVars>>

NextCS == CountSeizures

SpecCount == InitCS /\ [][NextCS]_vars

-----------------------------------------------------------------------------
(* Workbooks, patient lists, filters and rosters the builders are run on   *)

MaxPatients == 2

P21 == <<"p", "2", "1">>
P210 == <<"p", "2", "1", "0">>

PatientCodes == {P21, P210}

S_2019_04_18 == <<"2", "0", "1", "9", "-", "0", "4", "-", "1", "8">>
S_1b == <<"1", "b">>

MkRow(class, count, day, electric, clinical, gen, motor, end) ==
    [c \in AnnotationColumns |->
        CASE c = "Seizure_Classification" -> class
          [] c = "Seizure_count" -> count
          [] c = "Seizure_Date" -> day
          [] c = "Electric_Onset" -> electric
          [] c = "Clinical_Onset" -> clinical
          [] c = "Generalization" -> gen
          [] c = "Motor_Onset" -> motor
          [] c = "End" -> end]

RowA ==
    MkRow(PyStr(FIAS), PyInt(1), PyStr(S_2021_01_01), PyStr(S_12_00_00),
          PyInt(120500), PyStr(<<"n", "o">>), NaN, Timedelta(0, 45900, 0))
RowB ==
    MkRow(PyStr(FBTCS), PyStr(S_1b), Timestamp(2021, 3, 15, 0, 0, 0, 0), NaN,
          PyStr(<<"Y", "e", "s">>), TimeOfDay(12, 0, 0, 0), PyStr(S_abc),
          PyStr(S_23_59_59))
\* a row nobody classified
RowN ==
    MkRow(NaN, NaN, PyStr(S_2021_01_01), PyStr(S_01_02_03), NaN, NaN, NaN, NaN)
\* a row whose Motor_Onset cell was typed as a number
RowF ==
    MkRow(PyStr(FIAS), PyInt(2), PyStr(S_2021_01_01), PyStr(S_12_00_00),
          NaN, NaN, PyFloat(125), NaN)

MetaStart == Timestamp(2019, 4, 18, 0, 0, 0, 0)
MetaEnd == PyStr(S_2019_04_18)

GoodSheets ==
    { Sheet(DataFrame(AnnotationColumns, <<>>), MetaStart, MetaEnd),
      Sheet(DataFrame(AnnotationColumns, <<RowA>>), MetaStart, MetaEnd),
      Sheet(DataFrame(AnnotationColumns, <<RowA, RowB, RowN>>), MetaStart, NaN) }

\* a sheet without the classification column, and one with an unreadable time cell
BadSheets ==
    { Sheet(DataFrame(AnnotationColumns \ {"Seizure_Classification"}, <<>>),
            MetaStart, MetaEnd),
      Sheet(DataFrame(AnnotationColumns, <<RowF>>), MetaStart, MetaEnd) }

\* every workbook holding, for each patient code, one of the sheets or no sheet
Workbooks(sheets) ==
    UNION {[names -> sheets] : names \in SUBSET PatientCodes}

PatientLists == SeqUpTo(PatientCodes, MaxPatients)

FilterSamples ==
    { NoneV, PyList(<<PyStr(ALL)>>), PyList(<<PyStr(FIAS)>>),
      PyList(<<PyStr(FIAS), PyStr(FIAS)>>), PyList(<<PyStr(GTCS)>>),
      PyList(<<PyStr(FBTCS), PyStr(FIAS)>>) }

SavePaths == {NoneV, PyStr(<<"o", "u", "t">>)}

-----------------------------------------------------------------------------
(* build_seizure_datavault, one pass of its loop per step                  *)

InitSD ==
    /\ arg_annotations \in Workbooks(GoodSheets \cup BadSheets)
    /\ arg_patient_numbers \in PatientLists
    /\ arg_seizure_types \in FilterSamples
    /\ arg_save_path \in SavePaths
    /\ arg_log18 = NoneV /\ arg_log23 = NoneV
    /\ sd_pc = "loop" /\ sd_i = 1 /\ seizures_list = <<>>
    /\ sd_out = <<>> /\ sd_ret = NoneV /\ sd_saved = FALSE
    /\ IdleTS /\ IdleCS /\ IdlePD /\ IdleGN /\ IdleTB /\ IdleDev

\* lines 224-232
SD_Patient ==
    /\ sd_pc = "loop"
    /\ sd_i <= Len(arg_patient_numbers)
    /\ LET p_num == arg_patient_numbers[sd_i]
           r == ProcessPatient(arg_annotations, p_num, arg_seizure_types)
       IN  IF r.tag = "raise"
           THEN IF Catches(r)
                THEN /\ sd_out' = Append(sd_out, [p_num |-> p_num, exc |-> r.exc])
                     /\ sd_i' = sd_i + 1
                     /\ UNCHANGED <<sd_pc, seizures_list>>
                ELSE /\ sd_pc' = "raised"
                     /\ UNCHANGED <<sd_i, sd_out, seizures_list>>
           ELSE /\ seizures_list' = IF Len(r.v) > 0 THEN Append(seizures_list, r.v)
                                    ELSE seizures_list
                /\ sd_i' = sd_i + 1
                /\ UNCHANGED <<sd_pc, sd_out>>
    /\ UNCHANGED <<sd_ret, sd_saved, tsVars, csVars, argVars, pdVars, gnVars, tbVars, devVars>>

\* lines 234-243
SD_Return ==
    /\ sd_pc = "loop"
    /\ sd_i > Len(arg_patient_numbers)
    /\ sd_ret' = explode(seizures_list)
    /\ sd_saved' = (arg_save_path # NoneV)
    /\ sd_pc' = "returned"
    /\ UNCHANGED <<sd_i, seizures_list, sd_out, tsVars, csVars, argVars, pdVars, gnVars, tbVars, devVars>>

NextSD == SD_Patient \/ SD_Return

SpecSD == InitSD /\ [][NextSD]_vars

-----------------------------------------------------------------------------
(* build_patient_datavault, one pass of its loop per step                  *)

Row23(code, num, name, sex) ==
    [c \in {ID23, NUM23, NAME23, SEX23} |->
        CASE c = ID23 -> code [] c = NUM23 -> num [] c = NAME23 -> name [] c = SEX23 -> sex]

Row18(code, num, name, sex) ==
    [c \in {CODE18, NUM18, NAME18, SEX18} |->
        CASE c = CODE18 -> code [] c = NUM18 -> num [] c = NAME18 -> name
          [] c = SEX18 -> sex]

S_Doe == <<"D", "o", "e">>
S_Roe == <<"R", "o", "e">>
S_Poe == <<"P", "o", "e">>
S_F == <<"F">>
S_M == <<"M">>

\* a roster as load_patient_log returns it: the validated columns, and for the
\* older roster every cell turned into text by astype(str)
LoadedRow23(code, num, name, sex) ==
    [c \in EXPECTED_COLUMNS("log23") |->
        CASE c = "ID du patient" -> code [] c = "Num<C3A9>ro de dossier CHUM" -> num
          [] c = "Nom, Pr<C3A9>nom" -> name [] c = "Sex" -> sex [] OTHER -> NaN]

LoadedRow18(code, num, name, sex) ==
    [c \in EXPECTED_COLUMNS("log18") |->
        CASE c = "# Code" -> code [] c = "# Dossier m<C3A9>dical" -> num
          [] c = "Nom participant" -> name [] c = "Sexe du participant" -> sex
          [] OTHER -> PyStr(<<"n", "a", "n">>)]

Log23Samples ==
    { NoneV,
      DataFrame(EXPECTED_COLUMNS("log23"),
                <<LoadedRow23(PyStr(P21), PyStr(<<"1", "2", "3">>), PyStr(S_Doe),
                              PyStr(S_F))>>),
      DataFrame({ID23, NUM23, NAME23, SEX23},
                <<Row23(NaN, NaN, NaN, NaN),
                  Row23(PyStr(<<"P", "2", "1">>), PyStr(<<"1", "2", "3">>),
                        PyStr(S_Doe), PyStr(S_F))>>),
      \* the name cell holds None
      DataFrame({ID23, NUM23, NAME23, SEX23},
                <<Row23(PyStr(P21), PyStr(<<"1", "2", "3">>), NoneV, PyStr(S_F))>>),
      DataFrame({ID23, NUM23, NAME23, SEX23},
                <<Row23(PyStr(P210), PyInt(456), PyStr(S_Poe), NaN)>>) }

Log18Samples ==
    { NoneV,
      DataFrame(EXPECTED_COLUMNS("log18"),
                <<LoadedRow18(PyStr(<<"2", "1">>), PyStr(<<"9", "9", "9">>),
                              PyStr(S_Roe), PyStr(S_M))>>),
      DataFrame({CODE18, NUM18, NAME18, SEX18}, <<>>),
      DataFrame({CODE18, NUM18, NAME18, SEX18},
                <<Row18(PyStr(<<"2", "1">>), PyStr(<<"9", "9", "9">>),
                        PyStr(S_Roe), PyStr(S_M))>>),
      DataFrame({CODE18, NUM18, NAME18, SEX18},
                <<Row18(PyStr(<<"n", "a", "n">>), PyStr(<<"n", "a", "n">>),
                        PyStr(<<"n", "a", "n">>), PyStr(<<"n", "a", "n">>)),
                  Row18(PyStr(<<"P", "2", "1", "0">>), PyStr(<<"n", "a", "n">>),
                        PyStr(S_Poe), PyStr(S_M))>>) }

PatientFilters ==
    {NoneV, PyList(<<PyStr(ALL)>>), PyList(<<PyStr(FIAS)>>), PyList(<<PyStr(GTCS)>>)}

InitPD ==
    /\ arg_annotations \in Workbooks(GoodSheets)
    /\ arg_patient_numbers \in PatientLists
    /\ arg_seizure_types \in PatientFilters
    /\ arg_save_path \in SavePaths
    /\ arg_log18 \in Log18Samples
    /\ arg_log23 \in Log23Samples
    /\ pd_pc = "call" /\ pd_i = 0 /\ patients_list = <<>>
    /\ pd_out = <<>> /\ pd_ret = NoneV /\ pd_saved = FALSE
    /\ pd_parsed = <<>> /\ pd_exc = NoneV
    /\ IdleTS /\ IdleCS /\ IdleSD /\ IdleGN /\ IdleTB /\ IdleDev

\* lines 124-127
PD_Enter ==
    /\ pd_pc = "call"
    /\ IF BothRostersNull(arg_log18, arg_log23)
       THEN /\ pd_pc' = "raised"
            /\ pd_exc' = Raise("ValueError: At least one of log18 or log23 must be provided.")
            /\ UNCHANGED pd_i
       ELSE /\ pd_pc' = "loop"
            /\ pd_i' = 1
            /\ UNCHANGED pd_exc
    /\ UNCHANGED <<patients_list, pd_out, pd_ret, pd_saved, pd_parsed,
                   tsVars, csVars, argVars, sdVars, gnVars, tbVars, devVars>>

\* lines 129-171
PD_Patient ==
    /\ pd_pc = "loop"
    /\ pd_i <= Len(arg_patient_numbers)
    /\ LET p_num == arg_patient_numbers[pd_i]
           r == PatientData(arg_annotations, p_num, arg_seizure_types, arg_log18, arg_log23)
       IN  /\ pd_parsed' = Append(pd_parsed, p_num)
           /\ IF r.tag = "raise"
              THEN /\ pd_pc' = "raised"
                   /\ pd_exc' = r
                   /\ UNCHANGED <<pd_i, patients_list, pd_out>>
              ELSE /\ pd_out' = pd_out \o Diagnostics(p_num, ResolveIdentity(p_num, arg_log18, arg_log23))
                   /\ patients_list' = IF KeepPatient(r.v.num_seizures)
                                       THEN Append(patients_list, r.v)
                                       ELSE patients_list
                   /\ pd_i' = pd_i + 1
                   /\ UNCHANGED <<pd_pc, pd_exc>>
    /\ UNCHANGED <<pd_ret, pd_saved, tsVars, csVars, argVars, sdVars, gnVars, tbVars, devVars>>

\* lines 173-176
PD_Return ==
    /\ pd_pc = "loop"
    /\ pd_i > Len(arg_patient_numbers)
    /\ pd_ret' = patients_list
    /\ pd_saved' = (arg_save_path # NoneV)
    /\ pd_pc' = "returned"
    /\ UNCHANGED <<pd_i, patients_list, pd_out, pd_parsed, pd_exc,
                   tsVars, csVars, argVars, sdVars, gnVars, tbVars, devVars>>

NextPD == PD_Enter \/ PD_Patient \/ PD_Return

SpecPD == InitPD /\ [][NextPD]_vars

-----------------------------------------------------------------------------
(* Both builders on the same workbook, patient list and filter             *)

InitBoth ==
    /\ arg_annotations \in Workbooks(GoodSheets \cup BadSheets)
    /\ arg_patient_numbers \in PatientLists
    /\ arg_seizure_types \in FilterSamples
    /\ arg_save_path = NoneV
    /\ arg_log18 = DataFrame(ReadColumns18,
                             <<Row18(PyStr(<<"2", "1">>), PyStr(<<"9", "9", "9">>),
                                     PyStr(S_Roe), PyStr(S_M))>>)
    /\ arg_log23 = NoneV
    /\ sd_pc = "loop" /\ sd_i = 1 /\ seizures_list = <<>>
    /\ sd_out = <<>> /\ sd_ret = NoneV /\ sd_saved = FALSE
    /\ pd_pc = "call" /\ pd_i = 0 /\ patients_list = <<>>
    /\ pd_out = <<>> /\ pd_ret = NoneV /\ pd_saved = FALSE
    /\ pd_parsed = <<>> /\ pd_exc = NoneV
    /\ IdleTS /\ IdleCS /\ IdleGN /\ IdleTB /\ IdleDev

NextBoth == SD_Patient \/ SD_Return \/ PD_Enter \/ PD_Patient \/ PD_Return

SpecBoth == InitBoth /\ [][NextBoth]_vars

-----------------------------------------------------------------------------
(* extract_annotations.py : generate_patient_numbers_list                  *)

PyTuple(items) == [tag |-> "tuple", items |-> items]

\* a workbook as this function sees it: its sheet names, or a handle whose
\* sheet_names attribute raises
ExcelFile(names) == [tag |-> "ExcelFile", sheet_names |-> Ok(names)]
BrokenExcelFile == [tag |-> "ExcelFile", sheet_names |-> Raise("Exception")]

\* f"{num}"
FormatInt(n) == IF n >= 0 THEN DecDigits(n) ELSE <<"-">> \o DecDigits(-n)

\* isinstance(n, int): bool is a subclass of int
IsInstanceInt(c) == c.tag \in {"int", "bool"}

\* p.lower().startswith("p") and p[1:].isdigit()
IsPatientSheet(p) ==
    /\ Len(p) >= 1 /\ LowerChar(p[1]) = "p"
    /\ Len(p) >= 2 /\ AllDigits(SubSeq(p, 2, Len(p)))

\* [f"p{num}" for num in range(start, end + 1)]
CodesOfRange(start, end) ==
    [k \in 1..(IF end >= start THEN end - start + 1 ELSE 0) |->
        <<"p">> \o FormatInt(start + k - 1)]

ValidRange_any_length(p_range) ==
    /\ p_range.tag = "list"
    /\ Len(p_range.items) >= 2
    /\ \A k \in 1..Len(p_range.items) : IsInstanceInt(p_range.items[k])

\* lines 69-73
ValidRange(p_range) ==
    /\ p_range.tag = "list"
    /\ Len(p_range.items) = 2
    /\ \A k \in 1..Len(p_range.items) : IsInstanceInt(p_range.items[k])

generate_patient_numbers_list(annotations, selection, p_range) ==
    IF selection = "all"
    THEN IF annotations.sheet_names.tag = "raise"
         THEN Raise("ValueError: Error loading Excel file")
         ELSE Ok(SelectSeq(annotations.sheet_names.v, IsPatientSheet))
    ELSE IF selection = "range"
    THEN IF ~ValidRange(p_range)
         THEN Raise("ValueError: p_range must be a list of two integers: [start, end].")
         ELSE IF p_range.items[1].n > p_range.items[2].n
         THEN Raise("ValueError: Start number must be less than or equal to end number.")
         ELSE Ok(CodesOfRange(p_range.items[1].n, p_range.items[2].n))
    ELSE Raise("ValueError: Invalid selection mode. Use 'all' or 'range'.")

MaxRangeLen == 3

GenWorkbooks ==
    { BrokenExcelFile, ExcelFile(<<>>),
      ExcelFile(<< <<"I", "n", "f", "o">>, P21, <<"P", "2", "1", "0">>, <<"p">>,
                   <<"p", "x", "1">> >>) }

Selections == {"all", "range", "something_else", "Range"}

RangeItems ==
    { PyInt(-1), PyInt(0), PyInt(9), PyInt(11), PyStr(<<"1">>), PyFloat(10),
      PyBool(TRUE), NoneV }

RangeSamples ==
    {NoneV, PyTuple(<<PyInt(9), PyInt(11)>>)}
        \cup {PyList(items) : items \in SeqUpTo(RangeItems, MaxRangeLen)}

InitGN ==
    /\ gn_annotations \in GenWorkbooks
    /\ gn_selection \in Selections
    /\ gn_p_range \in RangeSamples
    /\ gn_pc = "call"
    /\ gn_ret = NoneV
    /\ IdleVault /\ IdleDev /\ IdleTB

GenerateList ==
    /\ gn_pc = "call"
    /\ gn_ret' = generate_patient_numbers_list(gn_annotations, gn_selection, gn_p_range)
    /\ gn_pc' = "done"
    /\ UNCHANGED <<gn_annotations, gn_selection, gn_p_range, vaultVars, devVars, tbVars>>

NextGN == GenerateList

SpecGen == InitGN /\ [][NextGN]_vars

-----------------------------------------------------------------------------
(* Signal files: numbers, instants and paths                               *)
(*                                                                         *)
(* A float that stands for a rate, a period or a duration is the exact     *)
(* fraction <<numerator, denominator>>; binary rounding of floats is not   *)
(* modelled.  An instant is a whole number of microseconds, the resolution *)
(* of datetime and timedelta, counted from an origin near the recording.   *)

RECURSIVE GCD(_, _)
GCD(a, b) == IF b = 0 THEN a ELSE GCD(b, a % b)

Abs(n) == IF n < 0 THEN -n ELSE n

\* the fraction n / d, d > 0, in lowest terms
Rat(n, d) ==
    IF n = 0 THEN <<0, 1>>
    ELSE With(GCD(Abs(n), d), LAMBDA g : <<n \div g, d \div g>>)

RatSub(x, y) == Rat(x[1] * y[2] - y[1] * x[2], x[2] * y[2])
RatScale(k, x) == Rat(k * x[1], x[2])
RatInv(x) == Rat(x[2], x[1])
RatLess(x, y) == x[1] * y[2] < y[1] * x[2]

\* the integer nearest to a / b (b > 0), a tie going to the even one
RoundHalfEven(a, b) ==
    LET q == a \div b
        r == a % b
    IN  IF 2 * r < b THEN q
        ELSE IF 2 * r > b THEN q + 1
        ELSE IF q % 2 = 0 THEN q ELSE q + 1

MicrosPerSecond == 1000000

\* timedelta(seconds=x): x seconds rounded to a whole number of microseconds
timedelta(seconds) == RoundHalfEven(seconds[1] * MicrosPerSecond, seconds[2])

\* pd.date_range(start=start, freq=freq, periods=periods) for a fixed step
date_range(start, freq, periods) == [i \in 1..periods |-> start + (i - 1) * freq]

\* the index of the first c in s, 0 if there is none
RECURSIVE IndexOf(_, _, _)
IndexOf(s, c, i) ==
    IF i > Len(s) THEN 0 ELSE IF s[i] = c THEN i ELSE IndexOf(s, c, i + 1)

\* the index of the last c in s, 0 if there is none
RECURSIVE RIndexOf(_, _, _)
RIndexOf(s, c, i) ==
    IF i < 1 THEN 0 ELSE IF s[i] = c THEN i ELSE RIndexOf(s, c, i - 1)

\* Path(file).name: the last component of the path
PathName(file) == SubSeq(file, RIndexOf(file, "/", Len(file)) + 1, Len(file))

\* Path(file).suffix: the name from its last dot on, unless that dot opens or
\* closes the name
PathSuffix(file) ==
    LET name == PathName(file)
        i == RIndexOf(name, ".", Len(name))
    IN  IF 1 < i /\ i < Len(name) THEN SubSeq(name, i, Len(name)) ELSE <<>>

SuffixIs_case_sensitive(file, ext) == PathSuffix(file) = ext

\* Path(file).suffix.lower() == ext
SuffixIs(file, ext) == Lower(PathSuffix(file)) = ext

-----------------------------------------------------------------------------
(* hexoskin/data.py : generate_timestamps, load_data                       *)

EDF_SUFFIX == <<".", "e", "d", "f">>

\* a table of signals: its time index, its column labels in order, and for
\* each label the cells of the column
SignalTable(index, columns, data) ==
    [tag |-> "SignalTable", index |-> index, columns |-> columns, data |-> data]

\* a pandas Series: values with their index entries
Series(index, values) == [tag |-> "Series", index |-> index, values |-> values]

PyDict(keys, items) == [tag |-> "dict", keys |-> keys, items |-> items]

\* what pyedflib.highlevel.read_edf delivers: the samples and the header of
\* each signal, and the header of the file
Signal(label, sample_frequency, samples) ==
    [label |-> label, sample_frequency |-> sample_frequency, signal |-> samples]

EdfFile(startdate, signals) == [tag |-> "edf", startdate |-> startdate, signals |-> signals]

\* label[label.index(":") + 1 :]
parse_label(label) ==
    IF IndexOf(label, ":", 1) = 0 THEN Raise("ValueError")
    ELSE Ok(SubSeq(label, IndexOf(label, ":", 1) + 1, Len(label)))

\* hexoskin generate_timestamps, lines 171-178
hx_generate_timestamps(start_time, sample_rate, length) ==
    date_range(start_time, timedelta(RatInv(sample_rate)), length)

RECURSIVE MaxRate(_, _)
\* max(signal_header["sample_frequency"] ...) over the signals from i on
MaxRate(signals, i) ==
    IF i = Len(signals) THEN signals[i].sample_frequency
    ELSE With(MaxRate(signals, i + 1),
              LAMBDA m : IF RatLess(m, signals[i].sample_frequency)
                         THEN signals[i].sample_frequency ELSE m)

RECURSIVE MaxLength(_, _)
MaxLength(signals, i) ==
    IF i > Len(signals) THEN 0
    ELSE With(MaxLength(signals, i + 1),
              LAMBDA m : IF Len(signals[i].signal) > m THEN Len(signals[i].signal) ELSE m)

\* int(max_sample_rate / signal_header["sample_frequency"])
Stride(max_sample_rate, sample_frequency) ==
    (max_sample_rate[1] * sample_frequency[2])
        \div (max_sample_rate[2] * sample_frequency[1])

\* metric_data = np.full(max_length, nan); metric_data[::stride] = signal
\* numpy accepts the assignment when the signal has one value per slot, or a
\* single value that it repeats
Scatter(signal, stride, max_length) ==
    LET slots == (max_length + stride - 1) \div stride
    IN  IF Len(signal) = slots
        THEN Ok([r \in 1..max_length |->
                    IF (r - 1) % stride = 0 THEN PyInt(signal[((r - 1) \div stride) + 1])
                    ELSE NaN])
        ELSE IF Len(signal) = 1
        THEN Ok([r \in 1..max_length |->
                    IF (r - 1) % stride = 0 THEN PyInt(signal[1]) ELSE NaN])
        ELSE Raise("ValueError")

\* the positions of a column whose value is not NaN, in order
NotNaPositions(values) ==
    LET F[i \in 0..Len(values)] ==
            IF i = 0 THEN <<>>
            ELSE IF values[i] = NaN THEN F[i - 1] ELSE Append(F[i - 1], i)
    IN  F[Len(values)]

dropna_keep_all(series) == series

\* Series.dropna()
dropna(series) ==
    LET keep == NotNaPositions(series.values)
    IN  Series([k \in 1..Len(keep) |-> series.index[keep[k]]],
               [k \in 1..Len(keep) |-> series.values[keep[k]]])

\* lines 249-255: the columns of the signals from 1 to i, or the first exception
RECURSIVE FillColumns(_, _, _, _)
FillColumns(signals, i, max_sample_rate, max_length) ==
    IF i = 0 THEN Ok([columns |-> <<>>, data |-> <<>>])
    ELSE With(FillColumns(signals, i - 1, max_sample_rate, max_length),
              LAMBDA before :
                  IF before.tag = "raise" THEN before
                  ELSE LET metric_data ==
                               Scatter(signals[i].signal,
                                       Stride(max_sample_rate, signals[i].sample_frequency),
                                       max_length)
                           label == parse_label(signals[i].label)
                       IN  IF metric_data.tag = "raise" THEN metric_data
                           ELSE IF label.tag = "raise" THEN label
                           ELSE Ok([columns |->
                                        IF \E k \in 1..Len(before.v.columns) :
                                               before.v.columns[k] = label.v
                                        THEN before.v.columns
                                        ELSE Append(before.v.columns, label.v),
                                    data |-> [c \in DOMAIN before.v.data \cup {label.v} |->
                                                 IF c = label.v THEN metric_data.v
                                                 ELSE before.v.data[c]]]))

\* hexoskin load_data after the suffix check, lines 233-262
hx_load(edf, as_dataframe) ==
    IF Len(edf.signals) = 0 THEN Raise("ValueError")
    ELSE LET max_sample_rate == MaxRate(edf.signals, 1)
             max_length == MaxLength(edf.signals, 1)
             timestamps == hx_generate_timestamps(edf.startdate, max_sample_rate,
                                                  max_length)
         IN  With(FillColumns(edf.signals, Len(edf.signals), max_sample_rate, max_length),
                  LAMBDA filled :
                      IF filled.tag = "raise" THEN filled
                      ELSE IF as_dataframe
                      THEN Ok(SignalTable(timestamps, filled.v.columns, filled.v.data))
                      ELSE Ok(PyDict(filled.v.columns,
                                     [c \in DOMAIN filled.v.data |->
                                         dropna(Series(timestamps, filled.v.data[c]))])))

-----------------------------------------------------------------------------
(* cometa/data.py : generate_timestamps, load_data                         *)

C3D_SUFFIX == <<".", "c", "3", "d">>

\* what c3d.Reader delivers: the analog rate, the analog labels and, frame by
\* frame, one row of samples per channel
C3dFile(analog_rate, analog_labels, frames) ==
    [tag |-> "c3d", analog_rate |-> analog_rate, analog_labels |-> analog_labels,
     frames |-> frames]

\* st_mtime is a float of seconds, finer than a microsecond: the model counts it
\* in quarters of a microsecond
MtimeTicksPerMicro == 4

\* datetime.fromtimestamp(dt_mod): rounds to a whole microsecond
fromtimestamp(st_mtime) == RoundHalfEven(st_mtime, MtimeTicksPerMicro)

\* np.linspace(0.0, stop, num=num, dtype=float)
linspace(stop, num) ==
    IF num = 1 THEN << <<0, 1>> >>
    ELSE [i \in 1..num |-> Rat((i - 1) * stop[1], stop[2] * (num - 1))]

\* cometa generate_timestamps, lines 153-182
cm_generate_timestamps(st_mtime, time_s) ==
    IF Len(time_s) < 2 THEN Raise("IndexError")
    ELSE LET T == RatSub(time_s[2], time_s[1])
             dur == RatScale(Len(time_s) - 1, T)
             time_stopped == fromtimestamp(st_mtime)
             time_started == time_stopped - timedelta(dur)
         IN  Ok(date_range(time_started, timedelta(T), Len(time_s)))

IsSpace(c) == c = " "

RECURSIVE LStrip(_)
LStrip(s) == IF Len(s) > 0 /\ IsSpace(s[1]) THEN LStrip(Tail(s)) ELSE s

RECURSIVE RStrip(_)
RStrip(s) ==
    IF Len(s) > 0 /\ IsSpace(s[Len(s)]) THEN RStrip(SubSeq(s, 1, Len(s) - 1)) ELSE s

RECURSIVE CollapseSpaces(_)
\* str.replace(r"\s+", " ", regex=True)
CollapseSpaces(s) ==
    IF Len(s) = 0 THEN <<>>
    ELSE IF IsSpace(s[1]) THEN <<" ">> \o CollapseSpaces(LStrip(s))
    ELSE <<s[1]>> \o CollapseSpaces(Tail(s))

\* line 278: data.columns.str.strip().str.replace(r"\s+", " ", regex=True)
NormalizeLabel(label) == CollapseSpaces(RStrip(LStrip(label)))

RECURSIVE ConcatFrames(_, _, _)
\* np.concatenate(analog_samples, axis=0), read down the column of channel ch
ConcatFrames(frames, ch, i) ==
    IF i > Len(frames) THEN <<>>
    ELSE frames[i][ch] \o ConcatFrames(frames, ch, i + 1)

RECURSIVE trim_zeros(_)
\* np.trim_zeros(x, "b")
trim_zeros(x) ==
    IF Len(x) > 0 /\ x[Len(x)] = 0 THEN trim_zeros(SubSeq(x, 1, Len(x) - 1)) ELSE x

RECURSIVE LongestFrom(_, _)
LongestFrom(columns, ch) ==
    IF ch > Len(columns) THEN 0
    ELSE With(LongestFrom(columns, ch + 1),
              LAMBDA m : IF Len(columns[ch]) > m THEN Len(columns[ch]) ELSE m)

\* line 281: DataFrame.apply collects the trimmed columns into a table over the
\* union of their row labels; a column shorter than the longest one is NaN below
\* its last cell
ApplyTrim(columns) ==
    LET trimmed == [ch \in 1..Len(columns) |-> trim_zeros(columns[ch])]
        rows == LongestFrom(trimmed, 1)
    IN  [ch \in 1..Len(columns) |->
            [r \in 1..rows |-> IF r <= Len(trimmed[ch]) THEN PyInt(trimmed[ch][r]) ELSE NaN]]

\* cometa load_data after the suffix check, lines 266-296
cm_load(c3dfile, st_mtime) ==
    IF Len(c3dfile.frames) = 0 THEN Raise("ValueError")
    ELSE LET channels == Len(c3dfile.analog_labels)
             all_analog_samples ==
                 [ch \in 1..channels |-> ConcatFrames(c3dfile.frames, ch, 1)]
             columns == [ch \in 1..channels |-> NormalizeLabel(c3dfile.analog_labels[ch])]
         IN  With(ApplyTrim(all_analog_samples),
                  LAMBDA data :
                      LET len == IF channels = 0 THEN 0 ELSE Len(data[1])
                          T == RatInv(c3dfile.analog_rate)
                          dur == RatScale(len - 1, T)
                          time_s == linspace(dur, len)
                          timestamps == cm_generate_timestamps(st_mtime, time_s)
                      IN  IF timestamps.tag = "raise" THEN timestamps
                          ELSE Ok(SignalTable(timestamps.v, columns,
                                              [c \in {columns[ch] : ch \in 1..channels} |->
                                                  data[CHOOSE ch \in 1..channels :
                                                           columns[ch] = c]])))

-----------------------------------------------------------------------------
(* One call of a timestamp generator or of a loader on a signal file       *)

MaxSamples == 3
MaxChannels == 2
MaxRecords == 2

P_a_edf == <<"a", ".", "e", "d", "f">>
P_a_EDF == <<"a", ".", "E", "D", "F">>
P_a_Edf == <<"d", ".", "x", "/", "a", ".", "E", "d", "f">>
P_a_c3d == <<"a", ".", "c", "3", "d">>
P_a_C3D == <<"d", ".", "x", "/", "a", ".", "C", "3", "D">>
P_a_c3D == <<"a", ".", "c", "3", "D">>
P_a_txt == <<"n", "o", "t", "_", "a", "_", "c", "3", "d", ".", "t", "x", "t">>
P_a_edf_txt == <<"a", ".", "e", "d", "f", ".", "t", "x", "t">>
P_a_edfx == <<"a", ".", "e", "d", "f", "x">>
P_dir_c3d == <<"d", ".", "c", "3", "d", "/", "a">>
P_dir_edf == <<"d", ".", "e", "d", "f", "/", "a">>
P_bare == <<"e", "d", "f">>

SignalPaths ==
    { P_a_edf, P_a_EDF, P_a_Edf, P_a_c3d, P_a_C3D, P_a_c3D, P_a_txt, P_a_edf_txt,
      P_a_edfx, P_dir_c3d, P_dir_edf, P_bare }

\* start instants, in microseconds from the origin
StartInstants == {0, 1500000}

\* sample rates in Hz: 1/2, 1, 3, 64, 128, 256, 1000
TimestampRates ==
    {<<1, 2>>, <<1, 1>>, <<3, 1>>, <<64, 1>>, <<128, 1>>, <<256, 1>>, <<1000, 1>>}

\* samples per data record of a signal; a record lasts one second
SamplesPerRecord == {1, 2, 3, 4}

ChannelLabel(j) == <<Digits[j + 1], ":", "c", Digits[j + 1]>>

\* the file of `records` data records whose j-th signal has spr[j] samples per
\* record; the samples of a signal are numbered, so that every one is distinct
EdfOf(startdate, records, spr) ==
    EdfFile(startdate,
            [j \in 1..Len(spr) |->
                Signal(ChannelLabel(j), <<spr[j], 1>>,
                       [i \in 1..(records * spr[j]) |-> 100 * j + i])])

EdfFiles ==
    {EdfOf(start, records, spr) :
        start \in StartInstants, records \in 1..MaxRecords,
        spr \in SeqUpTo(SamplesPerRecord, MaxChannels) \ {<<>>}}

\* the analog rates of the c3d files, in Hz
AnalogRates == {<<3, 1>>, <<2000, 1>>}

AnalogLabels == << <<"E", "1", " ", " ">>, <<" ", "E", "1", ":", "X">>, <<"E", " ", " ", "2">>,
                   <<"E", "2", ":", "Y">> >>

\* the file whose channel ch holds the samples columns[ch], stored in frames
\* of `size` samples per channel
C3dOf(analog_rate, columns, size) ==
    C3dFile(analog_rate,
            [ch \in 1..Len(columns) |-> AnalogLabels[ch]],
            [f \in 1..(Len(columns[1]) \div size) |->
                [ch \in 1..Len(columns) |->
                    SubSeq(columns[ch], (f - 1) * size + 1, f * size)]])

C3dFiles ==
    {C3dOf(rate, columns, size) :
        rate \in AnalogRates,
        columns \in UNION {[1..c -> [1..n -> {0, 1}]] :
                               c \in 1..MaxChannels, n \in 0..MaxSamples},
        size \in {1, 2}} 

\* st_mtime of the file, in quarters of a microsecond
Mtimes == {8000000, 8000002, 8000003}

\* the time axes load_data builds, and two longer ones
TimeAxes ==
    {linspace(RatScale(n - 1, RatInv(rate)), n) :
        rate \in AnalogRates \cup {<<1, 1>>, <<2048, 1>>}, n \in 0..(MaxSamples + 1)}
    \cup {linspace(RatScale(12, <<1, 300000>>), 13),
          linspace(RatScale(1999, <<1, 2048>>), 2000)}

InitGT ==
    /\ gt_start_time \in StartInstants
    /\ gt_sample_rate \in TimestampRates
    /\ gt_length \in 0..(MaxSamples + 1)
    /\ gt_pc = "call" /\ gt_ret = NoneV
    /\ IdleCG /\ IdleHX /\ IdleCM

InitCG ==
    /\ cg_mtime \in Mtimes
    /\ cg_time \in TimeAxes
    /\ cg_pc = "call" /\ cg_ret = NoneV
    /\ IdleGT /\ IdleHX /\ IdleCM

InitHX ==
    /\ hx_file \in SignalPaths
    /\ hx_as_dataframe \in BOOLEAN
    /\ hx_edf \in EdfFiles
    /\ hx_read = FALSE /\ hx_pc = "call" /\ hx_ret = NoneV
    /\ IdleGT /\ IdleCG /\ IdleCM

InitCM ==
    /\ cm_file \in SignalPaths
    /\ cm_c3d \in C3dFiles
    /\ cm_mtime \in Mtimes
    /\ cm_opened = FALSE /\ cm_pc = "call" /\ cm_ret = NoneV
    /\ IdleGT /\ IdleCG /\ IdleHX

InitDev == (InitGT \/ InitCG \/ InitHX \/ InitCM) /\ IdleVault /\ IdleGN /\ IdleTB

\* hexoskin generate_timestamps
HX_GenerateTimestamps ==
    /\ gt_pc = "call"
    /\ gt_ret' = hx_generate_timestamps(gt_start_time, gt_sample_rate, gt_length)
    /\ gt_pc' = "done"
    /\ UNCHANGED <<gt_start_time, gt_sample_rate, gt_length, cgVars, hxVars, cmVars,
                   vaultVars, gnVars, tbVars>>

\* cometa generate_timestamps
CM_GenerateTimestamps ==
    /\ cg_pc = "call"
    /\ cg_ret' = cm_generate_timestamps(cg_mtime, cg_time)
    /\ cg_pc' = "done"
    /\ UNCHANGED <<cg_mtime, cg_time, gtVars, hxVars, cmVars, vaultVars, gnVars, tbVars>>

\* hexoskin load_data, lines 227-230
HX_CheckSuffix ==
    /\ hx_pc = "call"
    /\ IF SuffixIs(hx_file, EDF_SUFFIX)
       THEN hx_pc' = "read" /\ UNCHANGED hx_ret
       ELSE hx_pc' = "raised" /\ hx_ret' = Raise("ValueError: not a .edf file")
    /\ UNCHANGED <<hx_file, hx_as_dataframe, hx_edf, hx_read, gtVars, cgVars, cmVars,
                   vaultVars, gnVars, tbVars>>

\* hexoskin load_data, lines 233-262
HX_Load ==
    /\ hx_pc = "read"
    /\ hx_read' = TRUE
    /\ hx_ret' = hx_load(hx_edf, hx_as_dataframe)
    /\ hx_pc' = IF hx_ret'.tag = "raise" THEN "raised" ELSE "returned"
    /\ UNCHANGED <<hx_file, hx_as_dataframe, hx_edf, gtVars, cgVars, cmVars,
                   vaultVars, gnVars, tbVars>>

\* cometa load_data, lines 262-264
CM_CheckSuffix ==
    /\ cm_pc = "call"
    /\ IF SuffixIs(cm_file, C3D_SUFFIX)
       THEN cm_pc' = "open" /\ UNCHANGED cm_ret
       ELSE cm_pc' = "raised" /\ cm_ret' = Raise("ValueError: not a .c3d file")
    /\ UNCHANGED <<cm_file, cm_c3d, cm_mtime, cm_opened, gtVars, cgVars, hxVars,
                   vaultVars, gnVars, tbVars>>

\* cometa load_data, lines 266-296
CM_Load ==
    /\ cm_pc = "open"
    /\ cm_opened' = TRUE
    /\ cm_ret' = cm_load(cm_c3d, cm_mtime)
    /\ cm_pc' = IF cm_ret'.tag = "raise" THEN "raised" ELSE "returned"
    /\ UNCHANGED <<cm_file, cm_c3d, cm_mtime, gtVars, cgVars, hxVars, vaultVars, gnVars, tbVars>>

NextDev ==
    \/ HX_GenerateTimestamps
    \/ CM_GenerateTimestamps
    \/ HX_CheckSuffix
    \/ HX_Load
    \/ CM_CheckSuffix
    \/ CM_Load

SpecDev == InitDev /\ [][NextDev]_vars

-----------------------------------------------------------------------------
(* cometa: downsample, the two extractions and RecordingInfo.from_data, on  *)
(* tables held in memory                                                    *)

\* a DataFrame object: its identity, the buffer that holds its cells and the
\* rows of the buffer it shows, in order
Frame(id, base, rows) == [tag |-> "DataFrame", id |-> id, base |-> base, rows |-> rows]

\* the table an object shows
TableOf(heap, df) ==
    With(heap[df.base],
         LAMBDA t :
             SignalTable([i \in 1..Len(df.rows) |-> t.index[df.rows[i]]],
                         t.columns,
                         [c \in DOMAIN t.data |->
                             [i \in 1..Len(df.rows) |-> t.data[c][df.rows[i]]]]))

\* data.iloc[::ratio, :], line 202: a new object showing every ratio-th row of
\* the buffer of data, from the first
iloc_step(df, id, ratio) ==
    Frame(id, df.base,
          [i \in 1..((Len(df.rows) + ratio - 1) \div ratio) |-> df.rows[(i - 1) * ratio + 1]])

\* a copy that is the object it was given
copy_shares_buffer(heap, df, id) == [frame |-> df, heap |-> heap]

\* DataFrame.copy(), line 202: a new object on a new buffer holding the rows shown
copy(heap, df, id) ==
    [frame |-> Frame(id, Len(heap) + 1, [i \in 1..Len(df.rows) |-> i]),
     heap |-> Append(heap, TableOf(heap, df))]

\* downsample, lines 185-203; a slice step of zero raises
downsample(heap, data, nobj, ratio) ==
    IF ratio = 0 THEN Raise("ValueError")
    ELSE Ok(copy(heap, iloc_step(data, nobj + 1, ratio), nobj + 2))

\* line 35
ACCELERATION_SUFFIXES == << <<":", "X">>, <<":", "Y">>, <<":", "Z">> >>

\* str.endswith with the first suffix only
endswith_first_only(s, suffixes) ==
    /\ Len(s) >= Len(suffixes[1])
    /\ SubSeq(s, Len(s) - Len(suffixes[1]) + 1, Len(s)) = suffixes[1]

\* str.endswith(tuple of suffixes)
endswith(s, suffixes) ==
    \E k \in 1..Len(suffixes) :
        /\ Len(s) >= Len(suffixes[k])
        /\ SubSeq(s, Len(s) - Len(suffixes[k]) + 1, Len(s)) = suffixes[k]

IsAccelerationColumn(c) == endswith(c, ACCELERATION_SUFFIXES)

IsEmgColumn(c) == ~endswith(c, ACCELERATION_SUFFIXES)

\* data[cols] for a list of labels of data: a new object on a new buffer with
\* the listed columns, every row
getitem(heap, data, cols, id) ==
    With(TableOf(heap, data),
         LAMBDA t :
             [frame |-> Frame(id, Len(heap) + 1, [i \in 1..Len(t.index) |-> i]),
              heap |-> Append(heap,
                              SignalTable(t.index, cols,
                                          [c \in {cols[k] : k \in 1..Len(cols)} |-> t.data[c]]))])

\* lines 206-221
extract_emg_data(heap, data, id) ==
    getitem(heap, data, SelectSeq(heap[data.base].columns, IsEmgColumn), id)

\* lines 224-239
extract_acceleration_data(heap, data, id) ==
    getitem(heap, data, SelectSeq(heap[data.base].columns, IsAccelerationColumn), id)

\* RecordingInfo.from_data, lines 98-128, and __post_init__, line 68; fs is the
\* exact quotient, instants and the duration are in microseconds
from_data(t) ==
    IF Len(t.index) < 2 THEN Raise("IndexError")
    ELSE IF t.index[2] = t.index[1] THEN Raise("ZeroDivisionError")
    ELSE Ok([fs |-> Rat(MicrosPerSecond, t.index[2] - t.index[1]),
             samples |-> Len(t.index),
             channels |-> t.columns,
             start_time |-> t.index[1],
             end_time |-> t.index[Len(t.index)],
             duration |-> t.index[Len(t.index)] - t.index[1]])

MaxTabRows == 4
MaxRatio == 3

Sensor1 == <<"E", "1">>
Sensor2 == <<"E", "2">>
Axis(sensor, a) == sensor \o <<":", a>>

\* one scalar channel and three axis channels
SensorColumns(sensor) == <<sensor, Axis(sensor, "X"), Axis(sensor, "Y"), Axis(sensor, "Z")>>

ColumnSamples ==
    { <<>>,
      <<Sensor1>>,
      SensorColumns(Sensor1),
      SensorColumns(Sensor1) \o SensorColumns(Sensor2),
      <<Axis(Sensor1, "Z"), Sensor2, Axis(Sensor1, "X"), Sensor1>>,
      \* labels that only look like an axis channel, and the bare suffix
      << <<":", "X">>, Axis(Sensor1, "x"), <<"X">>, <<"E", ":", "X", "Y">>,
         <<"E", ":", "Y", " ">> >> }

\* a table as load_data builds it: a regular index from the rounded period of
\* the analog rate, and cells that tell row and column
TableSample(rate, n, columns) ==
    SignalTable(date_range(0, timedelta(RatInv(rate)), n),
                columns,
                [c \in {columns[k] : k \in 1..Len(columns)} |->
                    [r \in 1..n |-> PyInt(10 * (CHOOSE k \in 1..Len(columns) : columns[k] = c) + r)]])

InitTB ==
    /\ tb_heap \in {<<TableSample(rate, n, columns)>> :
                       rate \in AnalogRates, n \in 0..MaxTabRows, columns \in ColumnSamples}
    /\ tb_data = Frame(1, 1, [i \in 1..Len(tb_heap[1].index) |-> i])
    /\ tb_nobj = 1
    /\ tb_ratio \in 0..MaxRatio
    /\ tb_down = NoneV /\ tb_emg = NoneV /\ tb_acc = NoneV
    /\ tb_info = NoneV /\ tb_info_down = NoneV
    /\ IdleVault /\ IdleGN /\ IdleDev

TB_Downsample ==
    /\ tb_down = NoneV
    /\ LET r == downsample(tb_heap, tb_data, tb_nobj, tb_ratio)
       IN  IF r.tag = "raise"
           THEN tb_down' = r /\ UNCHANGED <<tb_heap, tb_nobj>>
           ELSE /\ tb_down' = Ok(r.v.frame)
                /\ tb_heap' = r.v.heap
                /\ tb_nobj' = tb_nobj + 2
    /\ UNCHANGED <<tb_data, tb_ratio, tb_emg, tb_acc, tb_info, tb_info_down,
                   vaultVars, gnVars, devVars>>

TB_ExtractEmg ==
    /\ tb_emg = NoneV
    /\ LET r == extract_emg_data(tb_heap, tb_data, tb_nobj + 1)
       IN  /\ tb_emg' = Ok(r.frame)
           /\ tb_heap' = r.heap
           /\ tb_nobj' = tb_nobj + 1
    /\ UNCHANGED <<tb_data, tb_ratio, tb_down, tb_acc, tb_info, tb_info_down,
                   vaultVars, gnVars, devVars>>

TB_ExtractAcceleration ==
    /\ tb_acc = NoneV
    /\ LET r == extract_acceleration_data(tb_heap, tb_data, tb_nobj + 1)
       IN  /\ tb_acc' = Ok(r.frame)
           /\ tb_heap' = r.heap
           /\ tb_nobj' = tb_nobj + 1
    /\ UNCHANGED <<tb_data, tb_ratio, tb_down, tb_emg, tb_info, tb_info_down,
                   vaultVars, gnVars, devVars>>

\* RecordingInfo.from_data(data)
TB_FromData ==
    /\ tb_info = NoneV
    /\ tb_info' = from_data(TableOf(tb_heap, tb_data))
    /\ UNCHANGED <<tb_heap, tb_nobj, tb_data, tb_ratio, tb_down, tb_emg, tb_acc,
                   tb_info_down, vaultVars, gnVars, devVars>>

\* RecordingInfo.from_data(downsample(data, ratio=ratio))
TB_FromDownsampled ==
    /\ tb_down # NoneV /\ tb_down.tag = "ok"
    /\ tb_info_down = NoneV
    /\ tb_info_down' = from_data(TableOf(tb_heap, tb_down.v))
    /\ UNCHANGED <<tb_heap, tb_nobj, tb_data, tb_ratio, tb_down, tb_emg, tb_acc,
                   tb_info, vaultVars, gnVars, devVars>>

NextTB ==
    \/ TB_Downsample
    \/ TB_ExtractEmg
    \/ TB_ExtractAcceleration
    \/ TB_FromData
    \/ TB_FromDownsampled

SpecTB == InitTB /\ [][NextTB]_vars

\* ======================= claims =======================

-----------------------------------------------------------------------------
(* What the claims about create_timestamp speak of, stated without the     *)
(* parsers: the calendar day a date cell denotes and the clock a time cell *)
(* denotes, by table for strings and by arithmetic for HHMMSS codes        *)

IsoDay(s) ==
    IF s = S_2021_01_01 THEN <<2021, 1, 1>>
    ELSE IF s = S_2020_02_29 THEN <<2020, 2, 29>>
    ELSE IF s = S_2021_12_31_235959 THEN <<2021, 12, 31>>
    ELSE <<>>

ParseableDate(d) ==
    \/ d.tag \in {"Timestamp", "datetime"}
    \/ d.tag = "str" /\ IsoDay(d.s) # <<>>

DayOf(d) == IF d.tag = "str" THEN IsoDay(d.s) ELSE <<d.year, d.month, d.day>>

ClockString(s) ==
    IF s = S_12_00_00 THEN <<12, 0, 0>>
    ELSE IF s = S_01_02_03 THEN <<1, 2, 3>>
    ELSE IF s = S_23_59_59 THEN <<23, 59, 59>>
    ELSE <<>>

\* an integer is an HHMMSS code when its decimal pairs are an hour, a minute, a second
IsClockCode(n) ==
    n >= 0 /\ n \div 10000 <= 23 /\ (n \div 100) % 100 <= 59 /\ n % 100 <= 59

ClockCell(t) ==
    \/ t.tag = "str" /\ ClockString(t.s) # <<>>
    \/ t.tag = "int" /\ IsClockCode(t.n)
    \/ t.tag \in {"Timestamp", "datetime", "time"}

\* <<hour, minute, second, microsecond>> of a clock cell
ClockOf(t) ==
    IF t.tag = "str" THEN ClockString(t.s) \o <<0>>
    ELSE IF t.tag = "int"
    THEN <<t.n \div 10000, (t.n \div 100) % 100, t.n % 100, 0>>
    ELSE <<t.hour, t.minute, t.second, t.microsecond>>

\* "yes" or "no" in any letter case
IsYesNoCell(t) ==
    /\ t.tag = "str"
    /\ \/ /\ Len(t.s) = 3
          /\ t.s[1] \in {"y", "Y"} /\ t.s[2] \in {"e", "E"} /\ t.s[3] \in {"s", "S"}
       \/ /\ Len(t.s) = 2
          /\ t.s[1] \in {"n", "N"} /\ t.s[2] \in {"o", "O"}

Missing(c) == c \in {NoneV, NaN, NaT}

\* the day k days after (k >= 0) or before (k < 0) the day <<y, m, d>>
RECURSIVE AddDays(_, _)
AddDays(day, k) ==
    IF k = 0 THEN day
    ELSE IF k > 0
    THEN AddDays(IF day[3] < DaysInMonth(day[1], day[2]) THEN <<day[1], day[2], day[3] + 1>>
                 ELSE IF day[2] < 12 THEN <<day[1], day[2] + 1, 1>>
                 ELSE <<day[1] + 1, 1, 1>>, k - 1)
    ELSE AddDays(IF day[3] > 1 THEN <<day[1], day[2], day[3] - 1>>
                 ELSE IF day[2] > 1
                 THEN <<day[1], day[2] - 1, DaysInMonth(day[1], day[2] - 1)>>
                 ELSE <<day[1] - 1, 12, 31>>, k + 1)

\* C1: create_timestamp never raises: on every date cell and time cell it
\* returns a combined instant or null
C1_NeverRaises ==
    ts_pc = "done" => ts_ret.tag \in {"Timestamp", "None"}

\* C2: create_timestamp returns null whenever the time cell is "yes" or "no" in
\* any letter case, whatever the date cell, and whenever either cell is missing
C2_YesNoOrMissingIsNull ==
    (ts_pc = "done" /\ (IsYesNoCell(time) \/ Missing(date) \/ Missing(time)))
        => ts_ret = NoneV

C2_Witness ==
    /\ ts_pc = "done"
    /\ time = PyStr(<<"Y", "E", "S">>)
    /\ date = Timestamp(2021, 1, 1, 0, 0, 0, 0)
    /\ ts_ret = NoneV

\* C3: for a parseable date and a time cell that is a valid HH:MM:SS string, an
\* HHMMSS integer code or a timestamp / time-of-day value, the result is the
\* instant with the date's year, month, day and the time cell's hour, minute,
\* second, microsecond; the date cell's own time of day is discarded
C3_CombinesDateAndClock ==
    (ts_pc = "done" /\ ParseableDate(date) /\ ClockCell(time))
        => ts_ret = Timestamp(DayOf(date)[1], DayOf(date)[2], DayOf(date)[3],
                              ClockOf(time)[1], ClockOf(time)[2],
                              ClockOf(time)[3], ClockOf(time)[4])

C3_Witness ==
    /\ ts_pc = "done"
    /\ date = PyStr(S_2021_12_31_235959)
    /\ time = PyInt(93000)
    /\ ts_ret = Timestamp(2021, 12, 31, 9, 30, 0, 0)

\* C4: for a parseable date d and a duration t, the result is the instant
\* midnight of d plus t
C4_DurationIsOffsetPastMidnight ==
    (ts_pc = "done" /\ ParseableDate(date) /\ time.tag = "timedelta")
        => LET day == AddDays(DayOf(date), time.days)
           IN  ts_ret = Timestamp(day[1], day[2], day[3],
                                  time.seconds \div 3600, (time.seconds \div 60) % 60,
                                  time.seconds % 60, time.microseconds)

-----------------------------------------------------------------------------
(* count_seizures                                                          *)

NoFilter(types) == types = NoneV \/ types = PyList(<<PyStr(ALL)>>)

\* the rows whose classification is one of the requested types
MatchingRows(df, types) ==
    {i \in 1..Len(df.rows) :
        \E j \in 1..Len(types.items) :
            /\ df.rows[i]["Seizure_Classification"].tag = "str"
            /\ df.rows[i]["Seizure_Classification"].s = types.items[j].s}

\* C5: with no type filter (null, or ["all"]) count_seizures returns the number
\* of rows of the table, rows with a missing classification included, and the
\* integer 0 for an empty table
C5_NoFilterCountsEveryRow ==
    (cs_pc = "done" /\ NoFilter(cs_types))
        => cs_ret = PyInt(Len(cs_annotations.rows))

\* C6: with a list of requested types count_seizures returns the number of rows
\* whose classification is one of them, repeated entries counted once, and
\* null instead of 0 exactly when that number is zero
C6_FilterCountsMatchingRows ==
    (cs_pc = "done" /\ ~NoFilter(cs_types))
        => LET n == Cardinality(MatchingRows(cs_annotations, cs_types))
           IN  cs_ret = IF n = 0 THEN NoneV ELSE PyInt(n)

C6_Witness ==
    /\ cs_pc = "done"
    /\ cs_types = PyList(<<PyStr(FIAS), PyStr(FIAS)>>)
    /\ Len(cs_annotations.rows) = 3
    /\ cs_ret = PyInt(2)

-----------------------------------------------------------------------------
(* build_patient_datavault                                                 *)

ConfigurationError == Raise("ValueError: At least one of log18 or log23 must be provided.")

NoRoster == arg_log18 = NoneV /\ arg_log23 = NoneV

\* C7: with both rosters null build_patient_datavault fails with the
\* configuration error before any sheet is parsed, any diagnostic is printed or
\* any file is written; with a roster given that error is never raised
C7_ConfigErrorBeforeAnyWork ==
    /\ (NoRoster /\ pd_pc \notin {"idle", "call"})
          => /\ pd_pc = "raised"
             /\ pd_exc = ConfigurationError
             /\ pd_parsed = <<>> /\ pd_out = <<>> /\ patients_list = <<>>
             /\ pd_saved = FALSE /\ pd_ret = NoneV
    /\ ~NoRoster => pd_exc # ConfigurationError

C7_Witness ==
    /\ pd_pc = "raised"
    /\ NoRoster
    /\ Len(arg_patient_numbers) = 2
    /\ arg_save_path # NoneV
    /\ pd_exc = ConfigurationError

\* the event count of the i-th patient of the list
CountOf(i) == count_seizures(arg_annotations[arg_patient_numbers[i]].table, arg_seizure_types)

RECURSIVE KeptFrom(_)
\* the positions, from i on, of the patients whose event count is not null
KeptFrom(i) ==
    IF i > Len(arg_patient_numbers) THEN <<>>
    ELSE IF CountOf(i) # NoneV THEN <<i>> \o KeptFrom(i + 1)
    ELSE KeptFrom(i + 1)

NewerRow(p) ==
    IF arg_log23 = NoneV THEN 0
    ELSE LET m == {i \in 1..Len(arg_log23.rows) :
                      /\ arg_log23.rows[i][ID23].tag = "str"
                      /\ Lower(arg_log23.rows[i][ID23].s) = Lower(p)}
         IN  IF m = {} THEN 0 ELSE Min(m)

\* the older roster's first row whose code contains the digits of p, 0 if none
OlderRow(p) ==
    IF arg_log18 = NoneV THEN 0
    ELSE LET m == {i \in 1..Len(arg_log18.rows) :
                      /\ arg_log18.rows[i][CODE18].tag = "str"
                      /\ Contains(Lower(arg_log18.rows[i][CODE18].s),
                                  Lower(SubSeq(p, 2, Len(p))))}
         IN  IF m = {} THEN 0 ELSE Min(m)

\* identity as C10 describes it: the newer roster's row first, then the older
\* roster for the fields still null, and only if identifier or name is null
ClaimedIdentity(p) ==
    LET n == NewerRow(p)
        newer == IF n = 0 THEN <<NoneV, NoneV, NoneV>>
                 ELSE <<arg_log23.rows[n][NUM23], arg_log23.rows[n][NAME23],
                        arg_log23.rows[n][SEX23]>>
        o == IF newer[1] = NoneV \/ newer[2] = NoneV THEN OlderRow(p) ELSE 0
        older == IF o = 0 THEN <<NoneV, NoneV, NoneV>>
                 ELSE <<arg_log18.rows[o][NUM18], arg_log18.rows[o][NAME18],
                        arg_log18.rows[o][SEX18]>>
    IN  [k \in 1..3 |-> IF newer[k] = NoneV THEN older[k] ELSE newer[k]]

\* C10: identifier, name and sex come from the newer roster's row when the code
\* matches one; the older roster is consulted only when there was no match or
\* identifier or name is still null, and fills only the fields still null
C10_OlderRosterOnlyFillsNulls ==
    \A k \in 1..Len(patients_list) :
        LET rec == patients_list[k]
            id == ClaimedIdentity(rec.patient_num.s)
        IN  /\ rec.patient_name = id[2]
            /\ rec.patient_sex = id[3]
            /\ rec.patient_id = IF id[1] = PyStr(<<"n", "a", "n">>) THEN NoneV
                                ELSE str(id[1])

-----------------------------------------------------------------------------
(* build_seizure_datavault                                                 *)

\* the patient's sheet is missing or malformed: parsing or extraction raises
Fails(p) ==
    \/ p \notin DOMAIN arg_annotations
    \/ extract_seizure_info(arg_annotations[p].table, p, arg_seizure_types).tag = "raise"

RECURSIVE EventsFrom(_)
\* the events of the patients from position i on that do not fail, in list order
EventsFrom(i) ==
    IF i > Len(arg_patient_numbers) THEN <<>>
    ELSE IF Fails(arg_patient_numbers[i]) THEN EventsFrom(i + 1)
    ELSE extract_seizure_info(arg_annotations[arg_patient_numbers[i]].table,
                              arg_patient_numbers[i], arg_seizure_types).v
         \o EventsFrom(i + 1)

RECURSIVE FailedFrom(_)
FailedFrom(i) ==
    IF i > Len(arg_patient_numbers) THEN <<>>
    ELSE IF Fails(arg_patient_numbers[i])
    THEN <<arg_patient_numbers[i]>> \o FailedFrom(i + 1)
    ELSE FailedFrom(i + 1)

\* C9: build_seizure_datavault never raises on a failing patient; it prints a
\* diagnostic for each patient whose sheet is missing or malformed and returns
\* one row per event of the other patients, in patient order
C9_FailuresAreIsolated ==
    /\ sd_pc # "raised"
    /\ sd_pc = "returned"
          => /\ sd_ret = EventsFrom(1)
             /\ [k \in 1..Len(sd_out) |-> sd_out[k].p_num] = FailedFrom(1)

C9_Witness ==
    /\ sd_pc = "returned"
    /\ Len(arg_patient_numbers) = 2
    /\ Len(sd_out) = 1
    /\ sd_out[1].p_num = arg_patient_numbers[1]
    /\ Len(sd_ret) = 2
    /\ sd_ret[1].p_num = PyStr(arg_patient_numbers[2])

-----------------------------------------------------------------------------
(* build_patient_datavault, a patient no roster knows                      *)

\* the patient code matches no row of either roster
Unmatched(p) == NewerRow(p) = 0 /\ OlderRow(p) = 0

\* C11: for a patient code that matches no row of either roster the call does
\* not raise on that account, prints a diagnostic for the patient, and the
\* patient's record has a null patient_id and a null patient_name
C11_UnmatchedIdentityIsNull ==
    \A k \in 1..Len(patients_list) :
        LET rec == patients_list[k]
        IN  Unmatched(rec.patient_num.s)
                => /\ rec.patient_id = NoneV
                   /\ rec.patient_name = NoneV
                   /\ \E j \in 1..Len(pd_out) : pd_out[j].p_num = rec.patient_num.s

-----------------------------------------------------------------------------
(* generate_patient_numbers_list                                           *)

\* a Python int, with bool counted as the int it is
IsIntegerCell(c) == c.tag = "int" \/ c.tag = "bool"

TwoIntegers(r) ==
    /\ r.tag = "list"
    /\ Len(r.items) = 2
    /\ IsIntegerCell(r.items[1]) /\ IsIntegerCell(r.items[2])

\* the code "p" followed by the decimal numeral of n
RECURSIVE Numeral(_)
Numeral(n) ==
    IF n < 0 THEN <<"-">> \o Numeral(-n)
    ELSE IF n < 10 THEN <<Digits[n + 1]>>
    ELSE Numeral(n \div 10) \o <<Digits[(n % 10) + 1]>>

GenValueErrors ==
    { "ValueError: Error loading Excel file",
      "ValueError: p_range must be a list of two integers: [start, end].",
      "ValueError: Start number must be less than or equal to end number.",
      "ValueError: Invalid selection mode. Use 'all' or 'range'." }

\* C12: generate_patient_numbers_list raises a ValueError and returns no list
\* in range mode when p_range is not a list of exactly two integers or when
\* start > end, and for every selection mode other than "all" and "range"; for
\* a valid range it returns the codes p<start> .. p<end> in ascending order
C12_RangeValidatedThenEnumerated ==
    gn_pc = "done"
        => /\ gn_selection \notin {"all", "range"} => gn_ret.tag = "raise"
           /\ (gn_selection = "range" /\ ~TwoIntegers(gn_p_range)) => gn_ret.tag = "raise"
           /\ (gn_selection = "range" /\ TwoIntegers(gn_p_range))
                 => LET start == gn_p_range.items[1].n
                        end == gn_p_range.items[2].n
                    IN  IF start > end THEN gn_ret.tag = "raise"
                        ELSE /\ gn_ret.tag = "ok"
                             /\ Len(gn_ret.v) = end - start + 1
                             /\ \A k \in 1..Len(gn_ret.v) :
                                   gn_ret.v[k] = <<"p">> \o Numeral(start + k - 1)
           /\ gn_ret.tag = "raise" => gn_ret.exc \in GenValueErrors

C12_Witness ==
    /\ gn_pc = "done"
    /\ gn_selection = "range"
    /\ gn_p_range = PyList(<<PyInt(9), PyInt(11)>>)
    /\ gn_ret = Ok(<< <<"p", "9">>, <<"p", "1", "0">>, <<"p", "1", "1">> >>)

-----------------------------------------------------------------------------
(* The device loaders and their timestamp generators                       *)

\* the sample paths whose file name ends in .c3d, resp. .edf, in some letter case
C3dNamed == {P_a_c3d, P_a_C3D, P_a_c3D}
EdfNamed == {P_a_edf, P_a_EDF, P_a_Edf}

NotC3dError == Raise("ValueError: not a .c3d file")
NotEdfError == Raise("ValueError: not a .edf file")

\* C13: each loader rejects a wrong file extension before any decoding: cometa
\* load_data raises the invalid-format ValueError for every path whose suffix
\* is not .c3d in some letter case, hexoskin load_data for every suffix that is
\* not .edf, the file being neither opened nor decoded; a correctly suffixed
\* path, in any letter case, is not rejected by this check
C13_WrongSuffixRejectedBeforeDecoding ==
    /\ cm_pc \notin {"idle", "call"}
          => IF cm_file \in C3dNamed
             THEN cm_ret # NotC3dError /\ (cm_pc = "open" \/ cm_opened)
             ELSE cm_pc = "raised" /\ cm_ret = NotC3dError /\ ~cm_opened
    /\ hx_pc \notin {"idle", "call"}
          => IF hx_file \in EdfNamed
             THEN hx_ret # NotEdfError /\ (hx_pc = "read" \/ hx_read)
             ELSE hx_pc = "raised" /\ hx_ret = NotEdfError /\ ~hx_read

C13_Witness ==
    /\ cm_pc = "raised"
    /\ cm_file = P_a_txt
    /\ cm_ret = NotC3dError
    /\ ~cm_opened

\* the step, in microseconds, is exactly the period of the rate (a fraction of Hz)
StepIsPeriod(step, rate) == step * rate[1] = MicrosPerSecond * rate[2]

\* C14: hexoskin generate_timestamps returns, for every length n >= 1, rate
\* r > 0 and start s, exactly n instants, the first being s, every two
\* consecutive ones 1/r apart
C14_SynthesizedIndexHasPeriodGaps ==
    (gt_pc = "done" /\ gt_length >= 1)
        => /\ Len(gt_ret) = gt_length
           /\ gt_ret[1] = gt_start_time
           /\ \A i \in 1..(Len(gt_ret) - 1) :
                 StepIsPeriod(gt_ret[i + 1] - gt_ret[i], gt_sample_rate)

\* instant is a microsecond nearest to the file's st_mtime
IsModificationInstant(instant) ==
    2 * Abs(MtimeTicksPerMicro * instant - cg_mtime) <= MtimeTicksPerMicro

\* C15: for the motion/EMG device the index synthesized from the inferred
\* start has as many elements as the time axis, and its last element is the
\* file's last-modification instant, hence within one period of it
C15_IndexEndsAtModificationInstant ==
    (cg_pc = "done" /\ Len(cg_time) >= 2)
        => /\ cg_ret.tag = "ok"
           /\ Len(cg_ret.v) = Len(cg_time)
           /\ LET period == RatSub(cg_time[2], cg_time[1])
                  last == cg_ret.v[Len(cg_ret.v)]
              IN  \E ref \in {last - 1, last, last + 1} \cup {fromtimestamp(cg_mtime)} :
                      /\ IsModificationInstant(ref)
                      /\ Abs(last - ref) * period[2] < period[1] * MicrosPerSecond
           /\ IsModificationInstant(cg_ret.v[Len(cg_ret.v)])

\* C16: for a sample count of 1 the synthesis succeeds and returns the
\* one-element sequence [start]: the header start instant for the wearable,
\* the file modification instant for the motion/EMG file
C16_SingleSampleYieldsStart ==
    /\ (gt_pc = "done" /\ gt_length = 1) => gt_ret = <<gt_start_time>>
    /\ (cg_pc = "done" /\ Len(cg_time) = 1)
          => /\ cg_ret.tag = "ok"
             /\ Len(cg_ret.v) = 1
             /\ IsModificationInstant(cg_ret.v[1])

\* the fastest rate and the longest signal of the decoded file
FastestRate ==
    CHOOSE r \in {hx_edf.signals[j].sample_frequency : j \in 1..Len(hx_edf.signals)} :
        \A j \in 1..Len(hx_edf.signals) : ~RatLess(r, hx_edf.signals[j].sample_frequency)

LongestSignal ==
    CHOOSE n \in {Len(hx_edf.signals[j].signal) : j \in 1..Len(hx_edf.signals)} :
        \A j \in 1..Len(hx_edf.signals) : Len(hx_edf.signals[j].signal) <= n

\* the column name of the j-th signal: its label without the "<id>:" prefix
ColumnOf(j) == <<"c", Digits[j + 1]>>

\* round(max_rate / rate) for the j-th signal
ClaimedStride(j) ==
    LET rate == hx_edf.signals[j].sample_frequency
    IN  RoundHalfEven(FastestRate[1] * rate[2], FastestRate[2] * rate[1])

\* C17: in dataframe mode the wearable loader returns, for every set of channel
\* rates and lengths the decoder can deliver, a table with as many rows as the
\* longest channel has samples, in which the column of a channel with samples
\* x_0..x_(m-1) and stride k = round(max_rate / rate) holds x_i at row i*k for
\* every i < m and NaN at every other row
C17_SamplesScatteredAtStride ==
    (hx_read /\ hx_as_dataframe)
        => /\ hx_pc = "returned"
           /\ Len(hx_ret.v.index) = LongestSignal
           /\ \A j \in 1..Len(hx_edf.signals) :
                 LET x == hx_edf.signals[j].signal
                     k == ClaimedStride(j)
                     column == hx_ret.v.data[ColumnOf(j)]
                 IN  /\ Len(column) = LongestSignal
                     /\ \A i \in 0..(Len(x) - 1) :
                           i * k < LongestSignal /\ column[i * k + 1] = PyInt(x[i + 1])
                     /\ \A r \in 0..(LongestSignal - 1) :
                           (r % k # 0 \/ r \div k >= Len(x)) => column[r + 1] = NaN

\* the cells of a column that are not the missing sentinel, in order
NonSentinel(column) == SelectSeq(column, LAMBDA c : c # NaN)

\* C18: the two output modes of the wearable loader agree: for every channel the
\* dict-mode series contains no NaN, is as long as the channel's raw signal, and
\* its values are, in order, the raw samples and the non-NaN values of the
\* channel's column in the dataframe-mode output for the same file
C18_DictModeIsCompactedTable ==
    (hx_pc = "returned" /\ ~hx_as_dataframe)
        => \A j \in 1..Len(hx_edf.signals) :
              LET x == hx_edf.signals[j].signal
                  series == hx_ret.v.items[ColumnOf(j)]
                  table == hx_load(hx_edf, TRUE)
              IN  /\ \A i \in 1..Len(series.values) : series.values[i] # NaN
                  /\ Len(series.values) = Len(x)
                  /\ series.values = [i \in 1..Len(x) |-> PyInt(x[i])]
                  /\ table.tag = "ok"
                  /\ series.values = NonSentinel(table.v.data[ColumnOf(j)])

C18_Witness ==
    /\ hx_pc = "returned"
    /\ ~hx_as_dataframe
    /\ Len(hx_edf.signals) = 2
    /\ Len(hx_ret.v.items[ColumnOf(1)].values) = 2
    /\ Len(hx_ret.v.items[ColumnOf(2)].values) = 8

\* the number of analog samples per channel over all frames of the file
RECURSIVE SamplesPerChannel(_)
SamplesPerChannel(f) ==
    IF f > Len(cm_c3d.frames) THEN 0
    ELSE Len(cm_c3d.frames[f][1]) + SamplesPerChannel(f + 1)

\* C19: the table returned by the motion/EMG load_data has one row per original
\* sample index, as many as the concatenated analog samples per channel, and
\* one column per channel, whatever trailing zeros the channels carry
C19_OneRowPerOriginalSample ==
    cm_pc = "returned"
        => /\ Len(cm_ret.v.index) = SamplesPerChannel(1)
           /\ Len(cm_ret.v.columns) = Len(cm_c3d.analog_labels)
           /\ \A c \in DOMAIN cm_ret.v.data : Len(cm_ret.v.data[c]) = SamplesPerChannel(1)

\* one instant per row, strictly increasing, 1/rate apart
RegularIndex(table, rate) ==
    /\ \A c \in DOMAIN table.data : Len(table.data[c]) = Len(table.index)
    /\ \A i \in 1..(Len(table.index) - 1) :
          /\ table.index[i] < table.index[i + 1]
          /\ StepIsPeriod(table.index[i + 1] - table.index[i], rate)

\* C20: every signal table produced by either loader carries one timestamp per
\* row and its time index is strictly increasing with a constant gap of 1/rate,
\* the analog rate for the motion/EMG table, the maximum channel rate for the
\* wearable table
C20_IndexIsRegular ==
    /\ cm_pc = "returned" => RegularIndex(cm_ret.v, cm_c3d.analog_rate)
    /\ (hx_pc = "returned" /\ hx_as_dataframe) => RegularIndex(hx_ret.v, FastestRate)

\* C26: the table returned by the motion/EMG load_data contains no NaN: where
\* the trimming of trailing zeros leaves a channel shorter than the table, those
\* positions hold 0, so every cell of every channel is a number
C26_NoMissingCell ==
    cm_pc = "returned"
        => \A ch \in 1..Len(cm_ret.v.columns) :
              LET column == cm_ret.v.data[cm_ret.v.columns[ch]]
                  stored == ConcatFrames(cm_c3d.frames, ch, 1)
              IN  \A r \in 1..Len(column) :
                      /\ column[r] # NaN
                      /\ column[r] = PyInt(stored[r])

-----------------------------------------------------------------------------
(* extract_seizure_info, seen through the table of build_seizure_datavault *)

\* the patients of the list whose sheet exists and has the classification column
Readable(p) ==
    /\ p \in DOMAIN arg_annotations
    /\ "Seizure_Classification" \in arg_annotations[p].table.columns

\* the type c is among the requested types; with no filter, every type is
IsRequested(c) ==
    \/ NoFilter(arg_seizure_types)
    \/ \E j \in 1..Len(arg_seizure_types.items) : arg_seizure_types.items[j] = PyStr(c)

\* the rows of the sheet of p classified as c
RowsOfType(p, c) ==
    {r \in 1..Len(arg_annotations[p].table.rows) :
        arg_annotations[p].table.rows[r]["Seizure_Classification"] = PyStr(c)}

\* how many times p is listed
Listed(p) == Cardinality({i \in 1..Len(arg_patient_numbers) : arg_patient_numbers[i] = p})

\* the rows of the returned table for the patient p and the type c
EventsOfType(p, c) ==
    {k \in 1..Len(sd_ret) : sd_ret[k].p_num = PyStr(p) /\ sd_ret[k].sz_type = PyStr(c)}

\* C23: extract_seizure_info emits exactly one event per annotation row whose
\* classification is among the requested types and none for any other row, for
\* every list of requested types, lists with repeated entries included; with
\* null or ["all"] every classified row yields exactly one event
C23_OneEventPerRequestedRow ==
    (sd_pc = "returned" /\ sd_out = <<>>)
        => /\ \A p \in PatientCodes : \A c \in {FIAS, FBTCS, GTCS} :
                 Readable(p)
                     => Cardinality(EventsOfType(p, c))
                            = Listed(p) * (IF IsRequested(c)
                                           THEN Cardinality(RowsOfType(p, c)) ELSE 0)
           /\ \A k \in 1..Len(sd_ret) :
                 sd_ret[k].sz_type.tag = "str" /\ IsRequested(sd_ret[k].sz_type.s)

\* what a time field is to hold: the instant create_timestamp builds from the
\* row's date and the field's own cell, null when the cell cannot be interpreted
FieldValue(row, col) ==
    With(create_timestamp(row["Seizure_Date"], row[col]),
         LAMBDA ts : IF ts.tag = "Timestamp" THEN ts ELSE NoneV)

IsEventOf(ev, p, row) ==
    /\ ev.p_num = PyStr(p)
    /\ ev.sz_type = row["Seizure_Classification"]
    /\ ev.electric_onset = FieldValue(row, "Electric_Onset")
    /\ ev.clinical_onset = FieldValue(row, "Clinical_Onset")
    /\ ev.generalization = FieldValue(row, "Generalization")
    /\ ev.motor_onset = FieldValue(row, "Motor_Onset")
    /\ ev.sz_offset = FieldValue(row, "End")

\* C24: the five time fields of an event are built independently: each is
\* create_timestamp(event date, the field's own cell), and a cell that is missing
\* or cannot be interpreted leaves that field null without nulling the other
\* four fields or dropping the event
C24_TimeFieldsAreIndependent ==
    sd_pc = "returned"
        => \A i \in 1..Len(arg_patient_numbers) :
              LET p == arg_patient_numbers[i]
              IN  Readable(p)
                      => \A r \in 1..Len(arg_annotations[p].table.rows) :
                            LET row == arg_annotations[p].table.rows[r]
                            IN  (/\ row["Seizure_Classification"].tag = "str"
                                 /\ IsRequested(row["Seizure_Classification"].s))
                                    => \E k \in 1..Len(sd_ret) : IsEventOf(sd_ret[k], p, row)

-----------------------------------------------------------------------------
(* build_patient_datavault, failures and the older roster                  *)

\* the patient's sheet can be processed: it exists, has the classification
\* column and the two metadata cells
Processable(p) ==
    PatientData(arg_annotations, p, arg_seizure_types, arg_log18, arg_log23).tag = "ok"

\* the patient has a record to return: it can be processed and has a count
HasRecord(p) ==
    With(PatientData(arg_annotations, p, arg_seizure_types, arg_log18, arg_log23),
         LAMBDA r : r.tag = "ok" /\ r.v.num_seizures # NoneV)

\* C25: a failure while processing one patient's sheet (missing sheet, missing
\* column, unreadable metadata cells) does not propagate out of
\* build_patient_datavault: the call raises only for its configuration, before
\* any patient is processed, and it goes on to the patients after the failing one
C25_PatientFailureIsIsolated ==
    /\ pd_pc = "raised" => pd_parsed = <<>>
    /\ pd_pc = "returned"
          => /\ pd_parsed = arg_patient_numbers
             /\ \A i \in 1..Len(arg_patient_numbers) :
                   (/\ HasRecord(arg_patient_numbers[i])
                    /\ \E j \in 1..Len(arg_patient_numbers) :
                          ~Processable(arg_patient_numbers[j]))
                       => \E k \in 1..Len(pd_ret) :
                             pd_ret[k].patient_num = PyStr(arg_patient_numbers[i])

\* the digits of a code, in order: the patient number the code denotes
NumberOf(code) == SelectSeq(code, IsDigit)

\* the older-roster row i is the row of the patient p
DenotesPatient(i, p) ==
    /\ arg_log18.rows[i][CODE18].tag = "str"
    /\ NumberOf(arg_log18.rows[i][CODE18].s) = NumberOf(p)

\* name and sex as the newer roster alone gives them
NewerIdentity(p) ==
    IF NewerRow(p) = 0 THEN <<NoneV, NoneV>>
    ELSE <<arg_log23.rows[NewerRow(p)][NAME23], arg_log23.rows[NewerRow(p)][SEX23]>>

\* C30: identity taken from the older roster belongs to the requested patient:
\* a record whose name and sex are not those of the newer roster holds the name
\* and sex of an older-roster row whose code denotes the same patient number,
\* never those of a row coded for another number
C30_OlderIdentityIsThePatients ==
    \A k \in 1..Len(patients_list) :
        LET rec == patients_list[k]
            p == rec.patient_num.s
        IN  <<rec.patient_name, rec.patient_sex>> # NewerIdentity(p)
                => \E i \in 1..Len(arg_log18.rows) :
                      /\ DenotesPatient(i, p)
                      /\ rec.patient_name = arg_log18.rows[i][NAME18]
                      /\ rec.patient_sex = arg_log18.rows[i][SEX18]

\* the rosters of the call are rosters load_patient_log returns
AcceptedRosters ==
    /\ arg_log18 # NoneV => validate_columns(arg_log18, "log18").tag = "ok"
    /\ arg_log23 # NoneV => validate_columns(arg_log23, "log23").tag = "ok"

\* C29: every roster column build_patient_datavault reads for the identity
\* lookup is among the columns load_patient_log validates for that roster kind,
\* so the builder never fails with a missing column on rosters the loader accepted
C29_BuilderReadsValidatedColumns ==
    /\ ReadColumns23 \subseteq EXPECTED_COLUMNS("log23")
    /\ ReadColumns18 \subseteq EXPECTED_COLUMNS("log18")
    /\ (AcceptedRosters /\ pd_pc = "raised") => pd_exc # Raise("KeyError")

-----------------------------------------------------------------------------
(* The two datavault tables side by side                                   *)

\* the rows of the event table for the patient code p
EventRows(p) == {k \in 1..Len(sd_ret) : sd_ret[k].p_num = p}

\* C28: for the same workbook, patient list and type filter, num_seizures of a
\* patient in the patient table equals the number of rows with that patient
\* code in the event table (per listing of the patient), and a patient has rows
\* in the event table only if it is in the patient table with a positive count
C28_CountsAgreeWithEvents ==
    (sd_pc = "returned" /\ pd_pc = "returned")
        => /\ \A k \in 1..Len(pd_ret) :
                 /\ pd_ret[k].num_seizures.tag = "int"
                 /\ Cardinality(EventRows(pd_ret[k].patient_num))
                        = Listed(pd_ret[k].patient_num.s) * pd_ret[k].num_seizures.n
           /\ \A e \in 1..Len(sd_ret) :
                 \E k \in 1..Len(pd_ret) :
                     /\ pd_ret[k].patient_num = sd_ret[e].p_num
                     /\ pd_ret[k].num_seizures.tag = "int"
                     /\ pd_ret[k].num_seizures.n > 0

-----------------------------------------------------------------------------
(* cometa: the extractions, downsample and RecordingInfo                   *)

\* the label ends in a colon and one of the three axis letters
EndsInAxisSuffix(c) ==
    /\ Len(c) >= 2
    /\ c[Len(c) - 1] = ":"
    /\ c[Len(c)] \in {"X", "Y", "Z"}

NotAxisLabel(c) == ~EndsInAxisSuffix(c)

\* the table `part` has all the rows of `whole` and, of its columns, exactly
\* those listed in cols, in that order, with their cells
IsColumnSelection(part, whole, cols) ==
    /\ part.columns = cols
    /\ part.index = whole.index
    /\ \A k \in 1..Len(cols) : part.data[cols[k]] = whole.data[cols[k]]

\* every sensor of the table contributes its scalar channel and its three axes
OneScalarThreeAxes(t) ==
    /\ Len(t.columns) > 0
    /\ \A k \in 1..Len(t.columns) :
          LET c == t.columns[k]
              sensor == IF EndsInAxisSuffix(c) THEN SubSeq(c, 1, Len(c) - 2) ELSE c
          IN  \A l \in {sensor, sensor \o <<":", "X">>, sensor \o <<":", "Y">>,
                        sensor \o <<":", "Z">>} :
                  \E j \in 1..Len(t.columns) : t.columns[j] = l

CeilDiv(n, k) == CHOOSE m \in 0..n : m * k >= n /\ (m = 0 \/ (m - 1) * k < n)

\* the rows of t at the positions 0, k, 2k, ..., all columns
EveryKthRow(t, k) ==
    SignalTable([i \in 1..CeilDiv(Len(t.index), k) |-> t.index[(i - 1) * k + 1]],
                t.columns,
                [c \in DOMAIN t.data |->
                    [i \in 1..CeilDiv(Len(t.index), k) |-> t.data[c][(i - 1) * k + 1]]])

DownsampleReturns == tb_down = NoneV /\ tb_down' # NoneV /\ tb_ratio >= 1

\* C22: downsample(data, ratio=k), k >= 1, returns a new table, another object
\* than the input and on another buffer, that holds exactly the rows at the
\* positions 0, k, 2k, ... (ceil(n/k) rows) with all columns and their
\* timestamps; the input table is as it was
C22_DownsampleCopiesEveryKthRow ==
    [][DownsampleReturns
           => /\ tb_down'.tag = "ok"
              /\ tb_down'.v.id # tb_data.id
              /\ tb_down'.v.base # tb_data.base
              /\ TableOf(tb_heap', tb_down'.v) = EveryKthRow(TableOf(tb_heap, tb_data), tb_ratio)
              /\ Len(TableOf(tb_heap', tb_down'.v).index)
                     = CeilDiv(Len(TableOf(tb_heap, tb_data).index), tb_ratio)
              /\ tb_data' = tb_data
              /\ TableOf(tb_heap', tb_data') = TableOf(tb_heap, tb_data)]_vars

C22_Witness ==
    /\ tb_down # NoneV /\ tb_down.tag = "ok"
    /\ tb_ratio = 2
    /\ Len(TableOf(tb_heap, tb_data).index) = 3
    /\ Len(TableOf(tb_heap, tb_down.v).index) = 2
    /\ Len(TableOf(tb_heap, tb_data).columns) = 8

\* C27: the fs of RecordingInfo is the sampling frequency before downsampling:
\* for a loaded table d and a ratio k >= 1, from_data(downsample(d, ratio=k)).fs
\* equals from_data(d).fs, and samples is the row count of the table passed in
C27_FsSurvivesDownsampling ==
    (/\ tb_info # NoneV /\ tb_info_down # NoneV
     /\ tb_info.tag = "ok"
     /\ tb_ratio >= 1)
        => /\ tb_info_down.tag = "ok"
           /\ tb_info_down.v.fs = tb_info.v.fs
           /\ tb_info_down.v.samples = Len(TableOf(tb_heap, tb_down.v).index)
           /\ tb_info.v.samples = Len(TableOf(tb_heap, tb_data).index)

====
